---- MODULE Spec2Model ----
(***************************************************************************)
(* Intake triage service (lib/intake/triage-service): the rule engine,     *)
(* the similarity index client, the verifier with its fallback, the        *)
(* /triage, /store and /correct handlers and the shared triage store.      *)
(*                                                                         *)
(* Conventions                                                             *)
(*  - An optional text field of an IntakeItem (subject, body, from_name,   *)
(*    from_address) is a string; "" stands for both None and the empty     *)
(*    string, which the code never tells apart (`x or ''`, `if x:`).       *)
(*  - An optional category or priority is a string or None.                *)
(*  - A float confidence c is the integer c * 10^6 (micro-units); where    *)
(*    IEEE arithmetic lands one ulp under a decimal value the model holds  *)
(*    that value minus one micro-unit, so truncation behaves as in Python. *)
(*  - A similarity rounded to 3 decimals is an integer number of           *)
(*    thousandths; an index distance is an integer number of thousandths.  *)
(*  - The min_similarity parameter of find_similar is a float of any       *)
(*    precision: it is an integer number of ten-thousandths.               *)
(***************************************************************************)
EXTENDS Integers, Sequences, FiniteSets, TLC

VARIABLES
    index,        \* ChromaDB collection: id -> entry or NoEntry
    triage,       \* table `triage` of the shared database: id -> row or NoRow
    corrections,  \* table `triage_corrections`, in insertion order
    last,         \* the request handled last and its response
    served,       \* number of requests handled so far
    rItem,        \* rule engine harness: the item given to apply_rules
    rCues,        \* rule engine harness: entities.urgency_cues given to it
    vipPatterns,  \* rule engine harness: the configured VIP_PATTERNS
    rOut,         \* rule engine harness: what apply_rules returned
    config,       \* spot restart handler: get_config() of the environment
    event,        \* spot restart handler: detail of the EventBridge event
    pc,           \* spot restart handler: where lambda_handler stands
    attempt,      \* spot restart handler: the loop variable
    calls,        \* spot restart handler: the client calls and sleeps so far
    wait,         \* spot restart handler: the wait_time of the last backoff
    result        \* spot restart handler: what lambda_handler returned

serviceVars == <<index, triage, corrections, last, served>>
rulesVars == <<rItem, rCues, vipPatterns, rOut>>
lambdaVars == <<config, event, pc, attempt, calls, wait, result>>
vars == <<index, triage, corrections, last, served, rItem, rCues, vipPatterns, rOut, config, event, pc, attempt, calls, wait, result>>

None == "<None>"

\* the spot restart handler is not running
NoWait == [base |-> 0, jitter |-> 0]
NoResult == [status |-> None, reason |-> None, attempts |-> 0]
LambdaIdle ==
    /\ config = None /\ event = None /\ pc = "idle" /\ attempt = 0
    /\ calls = <<>> /\ wait = NoWait /\ result = NoResult

(***************************************************************************)
(* Strings                                                                 *)
(***************************************************************************)
Char(s, i) == SubSeq(s, i, i)

Contains(s, p) ==
    \E i \in 1..(Len(s) - Len(p) + 1) : SubSeq(s, i, i + Len(p) - 1) = p

UpperChars == "ABCDEFGHIJKLMNOPQRSTUVWXYZ"
LowerChars == "abcdefghijklmnopqrstuvwxyz"
WordChars == "abcdefghijklmnopqrstuvwxyzABCDEFGHIJKLMNOPQRSTUVWXYZ0123456789_"
SpaceChars == " \t\n\r\f"

LowerChar(c) ==
    IF \E i \in 1..Len(UpperChars) : Char(UpperChars, i) = c
    THEN Char(LowerChars, CHOOSE i \in 1..Len(UpperChars) : Char(UpperChars, i) = c)
    ELSE c

\* str.lower(), halving the string so that the evaluation stays shallow
RECURSIVE LowerStr(_)
LowerStr(s) ==
    IF Len(s) = 0 THEN ""
    ELSE IF Len(s) = 1 THEN LowerChar(s)
    ELSE LowerStr(SubSeq(s, 1, Len(s) \div 2))
            \o LowerStr(SubSeq(s, Len(s) \div 2 + 1, Len(s)))

RECURSIVE JoinComma(_)
JoinComma(q) ==
    IF Len(q) = 0 THEN ""
    ELSE IF Len(q) = 1 THEN q[1]
    ELSE q[1] \o ", " \o JoinComma(Tail(q))

Take(q, n) == SubSeq(q, 1, IF Len(q) < n THEN Len(q) ELSE n)

InSeq(x, q) == \E i \in 1..Len(q) : q[i] = x

Max(a, b) == IF a >= b THEN a ELSE b
Min(a, b) == IF a <= b THEN a ELSE b

(***************************************************************************)
(* entities.py: urgency cues                                               *)
(***************************************************************************)
\* \w at position k of s (no character outside the string)
IsWordAt(s, k) == k >= 1 /\ k <= Len(s) /\ Contains(WordChars, Char(s, k))

\* \b between positions k and k+1 of s
Boundary(s, k) == IsWordAt(s, k) # IsWordAt(s, k + 1)

IsSpaceAt(s, k) == k >= 1 /\ k <= Len(s) /\ Contains(SpaceChars, Char(s, k))

RECURSIVE SpaceRun(_, _)
SpaceRun(s, k) == IF IsSpaceAt(s, k) THEN 1 + SpaceRun(s, k + 1) ELSE 0

At(s, i, w) == i + Len(w) - 1 <= Len(s) /\ SubSeq(s, i, i + Len(w) - 1) = w

Lit(w) == [kind |-> "lit", w |-> w]

URGENCY_PATTERNS == <<
    Lit("urgent"), Lit("asap"), Lit("immediately"), Lit("emergency"),
    Lit("critical"), Lit("high priority"), Lit("today"), Lit("eod"),
    Lit("end of day"), Lit("this morning"), Lit("this afternoon"),
    Lit("right away"),
    [kind |-> "time", w |-> "time"],
    Lit("deadline"),
    [kind |-> "due", w |-> "due"],
    [kind |-> "expir", w |-> "expir"] >>

NoMatch == <<0, "">>

\* r"\bW\b": the match is W itself
MatchLit(w, s, i) ==
    IF At(s, i, w) /\ Boundary(s, i - 1) /\ Boundary(s, i + Len(w) - 1)
    THEN <<Len(w), w>> ELSE NoMatch

\* r"\btime.?sensitive\b": `.?` is greedy and `.` is any character but newline
MatchTime(s, i) ==
    IF ~(At(s, i, "time") /\ Boundary(s, i - 1)) THEN NoMatch
    ELSE IF /\ i + 4 <= Len(s) /\ Char(s, i + 4) # "\n"
            /\ At(s, i + 5, "sensitive") /\ Boundary(s, i + 13)
         THEN <<14, SubSeq(s, i, i + 13)>>
    ELSE IF At(s, i + 4, "sensitive") /\ Boundary(s, i + 12)
         THEN <<13, "timesensitive">>
    ELSE NoMatch

\* r"\bdue\s+(by|date)\b": re.findall returns the group, not the match
MatchDue(s, i) ==
    LET n == SpaceRun(s, i + 3)
        j == i + 3 + n
    IN  IF ~(At(s, i, "due") /\ Boundary(s, i - 1) /\ n >= 1) THEN NoMatch
        ELSE IF At(s, j, "by") /\ Boundary(s, j + 1) THEN <<3 + n + 2, "by">>
        ELSE IF At(s, j, "date") /\ Boundary(s, j + 3) THEN <<3 + n + 4, "date">>
        ELSE NoMatch

\* r"\bexpir(es?|ing)\b": re.findall returns the group, not the match
MatchExpir(s, i) ==
    IF ~(At(s, i, "expir") /\ Boundary(s, i - 1)) THEN NoMatch
    ELSE IF At(s, i + 5, "es") /\ Boundary(s, i + 6) THEN <<7, "es">>
    ELSE IF At(s, i + 5, "e") /\ Boundary(s, i + 5) THEN <<6, "e">>
    ELSE IF At(s, i + 5, "ing") /\ Boundary(s, i + 7) THEN <<8, "ing">>
    ELSE NoMatch

MatchAt(p, s, i) ==
    CASE p.kind = "lit" -> MatchLit(p.w, s, i)
      [] p.kind = "time" -> MatchTime(s, i)
      [] p.kind = "due" -> MatchDue(s, i)
      [] p.kind = "expir" -> MatchExpir(s, i)

\* re.findall(pattern, s): the non-overlapping matches, left to right; the
\* scan resumes at the leftmost match at or after position i
RECURSIVE FindAll(_, _, _)
FindAll(p, s, i) ==
    LET starts == {j \in i..Len(s) : MatchAt(p, s, j)[1] > 0}
    IN  IF starts = {} THEN <<>>
        ELSE LET j == CHOOSE x \in starts : \A y \in starts : x <= y
                 m == MatchAt(p, s, j)
             IN  <<m[2]>> \o FindAll(p, s, j + m[1])

RECURSIVE AppendNew(_, _)
AppendNew(cues, found) ==
    IF Len(found) = 0 THEN cues
    ELSE AppendNew(IF InSeq(found[1], cues) THEN cues ELSE Append(cues, found[1]),
                   Tail(found))

RECURSIVE CuesFrom(_, _, _)
CuesFrom(k, s, cues) ==
    IF k > Len(URGENCY_PATTERNS) THEN cues
    ELSE CuesFrom(k + 1, s, AppendNew(cues, FindAll(URGENCY_PATTERNS[k], s, 1)))

extract_urgency_cues(text) == CuesFrom(1, LowerStr(text), <<>>)

\* text.strip() is empty
IsBlank(text) == \A i \in 1..Len(text) : IsSpaceAt(text, i)

\* extract_entities, as far as the pipeline reads it: the urgency cues
\* (the spaCy entity lists feed only the oracle prompt)
extract_entities(text) ==
    IF IsBlank(text) THEN [urgency_cues |-> <<>>]
    ELSE [urgency_cues |-> extract_urgency_cues(text)]

(***************************************************************************)
(* server.py: the rule engine                                              *)
(***************************************************************************)
VIP_PATTERNS == <<>>

URGENT_KEYWORDS == <<"urgent", "asap", "immediately", "emergency",
                     "critical", "deadline", "today", "eod">>

NEWSLETTER_PATTERNS == <<"noreply@", "newsletter@", "digest@", "no-reply@",
                         "unsubscribe">>

ShortQuestionLimit == 500

\* text and from_addr of apply_rules
RuleText(item) == LowerStr(item.subject \o " " \o item.body)
RuleFrom(item) == LowerStr(item.from_address)

RulesStart == [matches |-> <<>>, category |-> None, priority |-> None,
               confidence |-> 0]

\* re.search(pattern, from_addr, re.IGNORECASE) for some configured pattern
VipHit(from_addr, patterns) ==
    \E k \in 1..Len(patterns) : Contains(from_addr, LowerStr(patterns[k]))

RuleVip(st, from_addr, patterns) ==
    IF VipHit(from_addr, patterns)
    THEN [matches |-> Append(st.matches, "vip-sender"),
          category |-> "Action-Required", priority |-> "P1",
          confidence |-> 900000]
    ELSE st

RuleUrgencyCues(st, cues) ==
    IF Len(cues) > 0
    THEN LET m == Append(st.matches,
                         "urgency-cues: " \o JoinComma(Take(cues, 3)))
         IN  IF st.category = None
             THEN [matches |-> m, category |-> "Action-Required",
                   priority |-> "P1",
                   confidence |-> Max(st.confidence, 700000)]
             ELSE [st EXCEPT !.matches = m]
    ELSE st

KeywordHit(text) ==
    \E k \in 1..Len(URGENT_KEYWORDS) : Contains(text, URGENT_KEYWORDS[k])

\* the mutant of RuleUrgentKeywords: the label is appended and nothing is set
RuleUrgentKeywordsLabelOnly(st, text) ==
    IF KeywordHit(text)
    THEN [st EXCEPT !.matches = Append(st.matches, "urgent-keywords")]
    ELSE st

RuleUrgentKeywords(st, text) ==
    IF KeywordHit(text)
    THEN LET m == IF InSeq("urgent-keywords", st.matches) THEN st.matches
                  ELSE Append(st.matches, "urgent-keywords")
         IN  IF st.category = None
             THEN [matches |-> m, category |-> "Action-Required",
                   priority |-> "P1",
                   confidence |-> Max(st.confidence, 600000)]
             ELSE [st EXCEPT !.matches = m]
    ELSE st

NewsletterHit(from_addr, text) ==
    \E k \in 1..Len(NEWSLETTER_PATTERNS) :
        \/ Contains(from_addr, NEWSLETTER_PATTERNS[k])
        \/ Contains(text, NEWSLETTER_PATTERNS[k])

\* the mutant of RuleNewsletter: fills an empty slot only, like the other rules
RuleNewsletterFillOnly(st, from_addr, text) ==
    IF NewsletterHit(from_addr, text)
    THEN IF st.category = None
         THEN [matches |-> Append(st.matches, "newsletter-pattern"),
               category |-> "FYI", priority |-> "P3",
               confidence |-> Max(st.confidence, 800000)]
         ELSE [st EXCEPT !.matches = Append(st.matches, "newsletter-pattern")]
    ELSE st

RuleNewsletter(st, from_addr, text) ==
    IF NewsletterHit(from_addr, text)
    THEN [matches |-> Append(st.matches, "newsletter-pattern"),
          category |-> "FYI", priority |-> "P3",
          confidence |-> Max(st.confidence, 800000)]
    ELSE st

\* the mutant of RuleShortQuestion: overwrites what an earlier rule set
RuleShortQuestionOverwrite(st, text) ==
    IF Contains(text, "?") /\ Len(text) < ShortQuestionLimit
    THEN [matches |-> Append(st.matches, "short-question"),
          category |-> "Action-Required", priority |-> "P2",
          confidence |-> Max(st.confidence, 500000)]
    ELSE st

\* the mutant of RuleShortQuestion: no label when an earlier rule set the
\* category
RuleShortQuestionSilent(st, text) ==
    IF Contains(text, "?") /\ Len(text) < ShortQuestionLimit /\ st.category = None
    THEN [matches |-> Append(st.matches, "short-question"),
          category |-> "Action-Required", priority |-> "P2",
          confidence |-> Max(st.confidence, 500000)]
    ELSE st

RuleShortQuestion(st, text) ==
    IF Contains(text, "?") /\ Len(text) < ShortQuestionLimit
    THEN LET m == Append(st.matches, "short-question")
         IN  IF st.category = None
             THEN [matches |-> m, category |-> "Action-Required",
                   priority |-> "P2",
                   confidence |-> Max(st.confidence, 500000)]
             ELSE [st EXCEPT !.matches = m]
    ELSE st

\* the mutant of RuleMeeting: overwrites what an earlier rule set
RuleMeetingOverwrite(st, item, text) ==
    IF item.type = "calendar" \/ Contains(text, "meeting") \/ Contains(text, "call")
    THEN [matches |-> Append(st.matches, "meeting-indicator"),
          category |-> "Scheduled", priority |-> "P2",
          confidence |-> Max(st.confidence, 600000)]
    ELSE st

RuleMeeting(st, item, text) ==
    IF item.type = "calendar" \/ Contains(text, "meeting") \/ Contains(text, "call")
    THEN LET m == Append(st.matches, "meeting-indicator")
         IN  IF st.category = None
             THEN [matches |-> m, category |-> "Scheduled", priority |-> "P2",
                   confidence |-> Max(st.confidence, 600000)]
             ELSE [st EXCEPT !.matches = m]
    ELSE st

\* apply_rules(item, entities), with the module's VIP_PATTERNS as `patterns`
apply_rules(item, entities, patterns) ==
    LET text == RuleText(item)
        from_addr == RuleFrom(item)
        s1 == RuleVip(RulesStart, from_addr, patterns)
        s2 == RuleUrgencyCues(s1, entities.urgency_cues)
        s3 == RuleUrgentKeywords(s2, text)
        s4 == RuleNewsletter(s3, from_addr, text)
        s5 == RuleShortQuestion(s4, text)
    IN  RuleMeeting(s5, item, text)

(***************************************************************************)
(* The items of the service model, and the pure parts of the pipeline      *)
(* tabulated over them                                                     *)
(***************************************************************************)
ItemA == [id |-> "a", zone |-> "work", source |-> "email", type |-> "email",
          subject |-> "Urgent: contract due", body |-> "need this today",
          from_name |-> "Boss", from_address |-> "boss@co.com"]
ItemB == [id |-> "b", zone |-> "work", source |-> "slack", type |-> "message",
          subject |-> "", body |-> "notes attached",
          from_name |-> "", from_address |-> ""]
Items == {ItemA, ItemB}
Ids == {it.id : it \in Items}

\* two more items for the index client on its own: one of another zone, and
\* one with the text of ItemB under another id
ItemC == [id |-> "c", zone |-> "home", source |-> "email", type |-> "email",
          subject |-> "School trip", body |-> "forms attached",
          from_name |-> "Office", from_address |-> "office@school.org"]
ItemD == [id |-> "d", zone |-> "work", source |-> "slack", type |-> "message",
          subject |-> "", body |-> "notes attached",
          from_name |-> "", from_address |-> ""]
IndexItems == Items \cup {ItemC, ItemD}
IndexIds == {it.id : it \in IndexItems}

\* text of triage_endpoint
TriageText(item) == item.subject \o " " \o item.body

\* extract_entities(text) and apply_rules(item, entities) of each item
Signals ==
    [it \in Items |->
        LET entities == extract_entities(TriageText(it))
        IN  [entities |-> entities,
             rules |-> apply_rules(it, entities, VIP_PATTERNS)]]

\* what the rule engine harness holds before and after apply_rules ran
NotApplied == [applied |-> FALSE, matches |-> <<>>, category |-> None,
               priority |-> None, confidence |-> 0]

Applied(r) == [applied |-> TRUE, matches |-> r.matches, category |-> r.category,
               priority |-> r.priority, confidence |-> r.confidence]

(***************************************************************************)
(* models.py: the closed enums                                             *)
(***************************************************************************)
Category == {"Action-Required", "FYI", "Awaiting-Reply", "Delegated",
             "Scheduled", "Reference"}
Priority == {"P0", "P1", "P2", "P3"}

\* `x or default` on an optional string
OrElse(x, default) == IF x = None THEN default ELSE x

(***************************************************************************)
(* entities.py / vectors.py: the similarity index client                   *)
(***************************************************************************)
EmbedBodyLimit == 2000
SubjectLimit == 200
MIN_SIMILARITY == 5000
TriageTopK == 5

RECURSIVE JoinLines(_)
JoinLines(q) ==
    IF Len(q) = 0 THEN ""
    ELSE IF Len(q) = 1 THEN q[1]
    ELSE q[1] \o "\n" \o JoinLines(Tail(q))

prepare_text_for_embedding(subject, body, from_name, source) ==
    JoinLines(
        (IF subject # "" THEN <<"Subject: " \o subject>> ELSE <<>>)
        \o (IF from_name # "" THEN <<"From: " \o from_name>> ELSE <<>>)
        \o (IF source # "" THEN <<"Source: " \o source>> ELSE <<>>)
        \o (IF body # ""
            THEN <<IF Len(body) > EmbedBodyLimit
                   THEN SubSeq(body, 1, EmbedBodyLimit) ELSE body>>
            ELSE <<>>))

\* prepare_text_for_embedding of each item
Documents ==
    [it \in IndexItems |->
        prepare_text_for_embedding(it.subject, it.body, it.from_name, it.source)]

EmbeddingText(item) == Documents[item]

NoEntry == [present |-> FALSE]

\* the document and metadata upsert_item builds (created_at is never set on
\* the items of this model); a key the code leaves out holds None
EntryOf(item, document, category, priority) ==
    [present |-> TRUE,
     document |-> document,
     zone |-> item.zone, source |-> item.source, type |-> item.type,
     category |-> category,
     priority |-> priority,
     subject |-> IF item.subject # ""
                 THEN SubSeq(item.subject, 1, Min(Len(item.subject), SubjectLimit))
                 ELSE None,
     from_name |-> IF item.from_name # "" THEN item.from_name ELSE None]

\* the metadata keys upsert_item leaves out when it has no value for them
OptionalKeys == {"category", "priority", "subject", "from_name"}

\* collection.upsert on one id: a new id gets the entry; for an id already
\* stored the library (not part of this repository) either replaces the
\* metadata or updates it key by key, keeping the keys the call leaves out
collection_upsert(old, new, merges) ==
    IF old.present /\ merges
    THEN [k \in DOMAIN new |->
            IF k \in OptionalKeys /\ new[k] = None THEN old[k] ELSE new[k]]
    ELSE new

\* the mutant of upsert_item: the classification is not written to the metadata
upsert_item_unclassified(idx, item, category, priority, merges) ==
    [idx EXCEPT ![item.id] =
        collection_upsert(idx[item.id],
                          EntryOf(item, EmbeddingText(item), None, None), merges)]

\* upsert_item(item, category, priority)
upsert_item(idx, item, category, priority, merges) ==
    [idx EXCEPT ![item.id] =
        collection_upsert(idx[item.id],
                          EntryOf(item, EmbeddingText(item), category, priority),
                          merges)]

\* collection.count()
Count(idx) == Cardinality({i \in DOMAIN idx : idx[i].present})

\* the mutant of Candidates: require_triaged filters nothing
CandidatesUntriaged(idx, zone, require_triaged) ==
    {i \in DOMAIN idx : idx[i].present /\ (zone # "" => idx[i].zone = zone)}

\* the entries the where-filter of find_similar lets through
Candidates(idx, zone, require_triaged) ==
    {i \in DOMAIN idx :
        /\ idx[i].present
        /\ (zone # "" => idx[i].zone = zone)
        /\ (require_triaged => idx[i].category # None)}

\* ids of a finite set as a sequence ordered by distance, nearest first (among
\* equally distant ids, a fixed order)
RECURSIVE ByDistance(_, _)
ByDistance(S, dist) ==
    IF S = {} THEN <<>>
    ELSE LET m == CHOOSE x \in S : \A y \in S : dist[x] <= dist[y]
         IN  <<m>> \o ByDistance(S \ {m}, dist)

\* collection.query(n_results, where): the n nearest candidates with their
\* distances; dist is the distance the embedding gives each candidate
ChromaQuery(idx, cands, dist, n) ==
    LET ordered == ByDistance(cands, dist)
    IN  [k \in 1..Min(Len(ordered), n) |->
            [id |-> ordered[k], distance |-> dist[ordered[k]]]]

\* round(1 / (1 + d), 3) in thousandths, d in thousandths: the nearest
\* thousandth (1000000 / (1000 + d) is never halfway for the distances used)
SimilarityOf(d) == (2 * 1000000 + (1000 + d)) \div (2 * (1000 + d))

\* the mutant of BelowMin: no entry is below the threshold
BelowMinNever(d, min_similarity) == FALSE

\* 1 / (1 + d) < min_similarity, on the unrounded value (d in thousandths,
\* min_similarity in ten-thousandths)
BelowMin(d, min_similarity) == 10000000 < min_similarity * (1000 + d)

\* list.sort(key=similarity, reverse=True): stable, most similar first
RECURSIVE SortBySimilarity(_)
SortBySimilarity(q) ==
    IF Len(q) <= 1 THEN q
    ELSE LET best == CHOOSE k \in 1..Len(q) :
                        /\ \A j \in 1..Len(q) : q[k].similarity >= q[j].similarity
                        /\ \A j \in 1..(k - 1) : q[j].similarity < q[k].similarity
         IN  <<q[best]>>
             \o SortBySimilarity(SubSeq(q, 1, best - 1) \o SubSeq(q, best + 1, Len(q)))

\* the mutant of KeepSimilar: the self-match is not skipped
RECURSIVE KeepSimilarAndSelf(_, _, _, _)
KeepSimilarAndSelf(res, idx, self, min_similarity) ==
    IF Len(res) = 0 THEN <<>>
    ELSE LET r == res[1]
             rest == KeepSimilarAndSelf(Tail(res), idx, self, min_similarity)
         IN  IF BelowMin(r.distance, min_similarity) THEN rest
             ELSE <<[id |-> r.id, similarity |-> SimilarityOf(r.distance),
                     subject |-> idx[r.id].subject,
                     category |-> idx[r.id].category,
                     priority |-> idx[r.id].priority]>> \o rest

\* the loop of find_similar over the query results
RECURSIVE KeepSimilar(_, _, _, _)
KeepSimilar(res, idx, self, min_similarity) ==
    IF Len(res) = 0 THEN <<>>
    ELSE LET r == res[1]
             rest == KeepSimilar(Tail(res), idx, self, min_similarity)
         IN  IF r.id = self THEN rest
             ELSE IF BelowMin(r.distance, min_similarity) THEN rest
             ELSE <<[id |-> r.id, similarity |-> SimilarityOf(r.distance),
                     subject |-> idx[r.id].subject,
                     category |-> idx[r.id].category,
                     priority |-> idx[r.id].priority]>> \o rest

\* the mutant of find_similar: the query asks for top_k results, without the
\* one more for the self-match
find_similar_without_margin(idx, item, top_k, min_similarity, zone, require_triaged, q) ==
    IF Count(idx) = 0 THEN <<>>
    ELSE IF q.fails = "query" THEN <<>>
    ELSE LET cands == Candidates(idx, zone, require_triaged)
             res == ChromaQuery(idx, cands, q.dist, top_k)
             kept == SortBySimilarity(KeepSimilar(res, idx, item.id, min_similarity))
         IN  SubSeq(kept, 1, Min(Len(kept), top_k))

\* get_collection() and collection.count() of find_similar stand outside its
\* try block: when the backing index fails there, find_similar raises
find_similar_raises(q) == q.fails = "count"

\* find_similar(item, top_k, min_similarity, zone, require_triaged) when it
\* returns; q is what the backing index does on this call: it fails in
\* collection.query (q.fails = "query"), or it gives the distances q.dist
find_similar(idx, item, top_k, min_similarity, zone, require_triaged, q) ==
    IF Count(idx) = 0 THEN <<>>
    ELSE IF q.fails = "query" THEN <<>>
    ELSE LET cands == Candidates(idx, zone, require_triaged)
             res == ChromaQuery(idx, cands, q.dist, top_k + 1)
             kept == SortBySimilarity(KeepSimilar(res, idx, item.id, min_similarity))
         IN  SubSeq(kept, 1, Min(Len(kept), top_k))

(***************************************************************************)
(* classifier.py: the verifier and its fallback                            *)
(***************************************************************************)
\* int(confidence * 100) on the float confidence
PercentInt(c) == (c * 100) \div 1000000

OracleError == "oracle call failed"

Raised == [raised |-> TRUE]

\* TriageClassification(...) of the except branch: Category(...) and
\* Priority(...) raise ValueError on a value outside the enum, and the model
\* validates confidence against ge=0, le=100
Fallback(context) ==
    LET cat == OrElse(context.proposed_category, "Action-Required")
        pri == OrElse(context.proposed_priority, "P2")
        pct == PercentInt(context.confidence)
    IN  IF cat \notin Category \/ pri \notin Priority \/ pct \notin 0..100
        THEN Raised
        ELSE [raised |-> FALSE, action |-> "confirmed", category |-> cat,
              priority |-> pri, quick_win |-> FALSE, confidence |-> pct,
              reasoning |-> "AI classification failed, using deterministic: "
                                \o OracleError]

\* classify(item, context); oracle is what client.messages.create does on
\* this call: it raises, or it returns the validated classification oracle.out
classify(context, oracle) ==
    IF oracle.raises THEN Fallback(context)
    ELSE [raised |-> FALSE, action |-> oracle.out.action,
          category |-> oracle.out.category, priority |-> oracle.out.priority,
          quick_win |-> oracle.out.quick_win,
          confidence |-> oracle.out.confidence,
          reasoning |-> oracle.out.reasoning]

\* str(x) of an optional string in an f-string
Str(x) == IF x = None THEN "None" ELSE x

HintLimit == 5

\* one line of corrections_text ("->" stands for the arrow character)
CorrectionLine(corr) ==
    "- Changed " \o Str(corr.original_category) \o "/" \o Str(corr.original_priority)
        \o " -> " \o Str(corr.corrected_category) \o "/" \o Str(corr.corrected_priority)
        \o (IF corr.reason # None /\ corr.reason # ""
            THEN " (reason: " \o corr.reason \o ")" ELSE "")
        \o "\n"

\* corrections_text: built from recent_corrections[:5], and used nowhere
RECURSIVE CorrectionLines(_)
CorrectionLines(q) ==
    IF Len(q) = 0 THEN "" ELSE CorrectionLine(q[1]) \o CorrectionLines(Tail(q))

corrections_text(recent_corrections) ==
    "\n\nRECENT USER CORRECTIONS (learn from these):\n"
        \o CorrectionLines(Take(recent_corrections, HintLimit))

\* the context classify_with_corrections hands to classify
HintedContext(context, recent_corrections) ==
    IF Len(recent_corrections) > 0
    THEN [context EXCEPT !.rule_matches =
            Append(@, "User corrections: " \o ToString(Len(recent_corrections))
                          \o " recent")]
    ELSE context

\* classify_with_corrections(item, context, recent_corrections)
classify_with_corrections(context, recent_corrections, oracle) ==
    classify(HintedContext(context, recent_corrections), oracle)

(***************************************************************************)
(* server.py: /triage, up to the DeterministicContext                      *)
(***************************************************************************)
\* rule_confidence + 0.2 in IEEE doubles: 0.7 + 0.2 is 0.8999999999999999
PlusBoost(c) == IF c = 700000 THEN 899999 ELSE c + 200000

\* similarity * 0.8 in IEEE doubles, similarity in thousandths: for these
\* similarities the product lands under the decimal value
TimesDiscount(sim) ==
    IF sim \in {175, 350, 700, 725} THEN sim * 800 - 1 ELSE sim * 800

\* the mutant of Boosted: a similarity of exactly 0.7 boosts too
BoostedFromThreshold(rules, similar) ==
    IF /\ Len(similar) > 0
       /\ similar[1].category = rules.category
       /\ similar[1].similarity >= 700
    THEN Min(PlusBoost(rules.confidence), 950000)
    ELSE rules.confidence

\* the mutant of Boosted: the boost has no cap
BoostedUncapped(rules, similar) ==
    IF /\ Len(similar) > 0
       /\ similar[1].category = rules.category
       /\ similar[1].similarity > 700
    THEN PlusBoost(rules.confidence)
    ELSE rules.confidence

Boosted(rules, similar) ==
    IF /\ Len(similar) > 0
       /\ similar[1].category = rules.category
       /\ similar[1].similarity > 700
    THEN Min(PlusBoost(rules.confidence), 950000)
    ELSE rules.confidence

\* the mutant of MergeContext: a neighbour is never adopted
MergeContextRulesOnly(rules, similar) ==
    [proposed_category |-> rules.category,
     proposed_priority |-> rules.priority,
     confidence |-> Boosted(rules, similar),
     rule_matches |-> rules.matches]

\* the DeterministicContext of triage_endpoint (the fields the verifier reads)
MergeContext(rules, similar) ==
    LET conf == Boosted(rules, similar)
    IN  IF /\ rules.category = None
           /\ Len(similar) > 0
           /\ similar[1].category # None
           /\ similar[1].similarity > 600
        THEN [proposed_category |-> similar[1].category,
              proposed_priority |-> similar[1].priority,
              confidence |-> TimesDiscount(similar[1].similarity),
              rule_matches |-> rules.matches]
        ELSE [proposed_category |-> rules.category,
              proposed_priority |-> rules.priority,
              confidence |-> conf,
              rule_matches |-> rules.matches]

(***************************************************************************)
(* database.py: the shared triage store                                    *)
(***************************************************************************)
NoRow == [present |-> FALSE]

\* the mutant of get_original_triage: no row is ever found
get_original_triage_unread(tbl, intake_id) == <<None, None>>

\* get_original_triage(intake_id)
get_original_triage(tbl, intake_id) ==
    IF tbl[intake_id].present
    THEN <<tbl[intake_id].category, tbl[intake_id].priority>>
    ELSE <<None, None>>

\* corrected_at of the newest record (0 on an empty table)
LastStamp(hist) == IF Len(hist) = 0 THEN 0 ELSE hist[Len(hist)].corrected_at

\* the mutant of record_correction: an earlier record of the same item is
\* replaced by the new one
record_correction_replacing(hist, intake_id, corrected_category, corrected_priority, original_category, original_priority, now) ==
    Append(SelectSeq(hist, LAMBDA r : r.intake_id # intake_id),
           [intake_id |-> intake_id,
            original_category |-> original_category,
            original_priority |-> original_priority,
            corrected_category |-> corrected_category,
            corrected_priority |-> corrected_priority,
            corrected_at |-> now])

\* record_correction(...): one INSERT into triage_corrections; the INSERT
\* names no corrected_at, the table fills it with the time of the insert, now
record_correction(hist, intake_id, corrected_category, corrected_priority, original_category, original_priority, now) ==
    Append(hist, [intake_id |-> intake_id,
                  original_category |-> original_category,
                  original_priority |-> original_priority,
                  corrected_category |-> corrected_category,
                  corrected_priority |-> corrected_priority,
                  corrected_at |-> now])

\* the mutant of update_triage_with_correction: triaged_by is left as it was
update_keeps_triaged_by(tbl, intake_id, corrected_category, corrected_priority) ==
    IF tbl[intake_id].present
    THEN [tbl EXCEPT ![intake_id].category = corrected_category,
                     ![intake_id].priority = corrected_priority]
    ELSE tbl

\* update_triage_with_correction(...): one UPDATE ... WHERE intake_id = ?
update_triage_with_correction(tbl, intake_id, corrected_category, corrected_priority) ==
    IF tbl[intake_id].present
    THEN [tbl EXCEPT ![intake_id].category = corrected_category,
                     ![intake_id].priority = corrected_priority,
                     ![intake_id].triaged_by = "user"]
    ELSE tbl

(***************************************************************************)
(* The service: requests over a pool of items                              *)
(***************************************************************************)
MaxCorrections == 2
MaxRequests == 3

\* the category and priority query parameters of /store
StoreParams == {<<None, None>>, <<"Spam", "P9">>}

\* corrected_category, corrected_priority, original_category and
\* original_priority of a CorrectionRequest
CorrectionValues == {<<"Reference", "P0", "FYI", "P3">>, <<"Junk", "P3", None, None>>}

\* seconds the clock of the database advances between two inserts
Ticks == {0, 1}

\* what the oracle can answer: a validated TriageClassification
OracleOutputs ==
    {[action |-> "adjusted", category |-> "Scheduled", priority |-> "P2",
      quick_win |-> TRUE, confidence |-> 85, reasoning |-> "has a date"]}
OracleOutcomes ==
    {[raises |-> TRUE, out |-> None]}
        \cup {[raises |-> FALSE, out |-> o] : o \in OracleOutputs}

\* with skip_ai the oracle is not called
NotCalled == [raises |-> FALSE, out |-> None]

\* index distances in thousandths: similarity 0.8, 0.7 and 0.4
Distances == {250, 429, 1500}

\* what the backing index can do on one query for `text`: it fails in
\* count() or in query(), or it gives every candidate a distance, 0 to a
\* document equal to the query text
QueryOutcomesOver(idx, text, zone, require_triaged, distances) ==
    {[fails |-> f, dist |-> <<>>] : f \in {"count", "query"}}
        \cup {[fails |-> "no", dist |-> d] :
                d \in {f \in [Candidates(idx, zone, require_triaged)
                                -> distances \cup {0}] :
                         \A c \in DOMAIN f : (f[c] = 0) <=> (idx[c].document = text)}}

QueryOutcomes(idx, text, zone, require_triaged) ==
    QueryOutcomesOver(idx, text, zone, require_triaged, Distances)

\* the module vectors.py defines these names and no others
VectorsNames == {"get_client", "get_collection", "get_collection_count",
                 "upsert_item", "find_similar", "find_similar_by_text",
                 "delete_item", "reset_collection"}

Init ==
    /\ index = [i \in Ids |-> NoEntry]
    /\ triage = [i \in Ids |-> NoRow]
    /\ corrections = <<>>
    /\ last = [op |-> "none"]
    /\ served = 0
    /\ rItem = ItemA /\ rCues = <<>> /\ vipPatterns = VIP_PATTERNS
    /\ rOut = NotApplied
    /\ LambdaIdle

\* POST /store
Store(item, category, priority, upsertFails, merges) ==
    /\ served < MaxRequests
    /\ served' = served + 1
    /\ index' = IF upsertFails THEN index
                ELSE upsert_item(index, item, category, priority, merges)
    /\ last' = [op |-> "store", id |-> item.id,
                status |-> IF upsertFails THEN "error" ELSE "stored"]
    /\ UNCHANGED <<triage, corrections>>
    /\ UNCHANGED rulesVars
    /\ UNCHANGED lambdaVars

\* the mutant of DeterministicResult: an absent proposal is passed on as it is
DeterministicResultNoDefault(item, context) ==
    [id |-> item.id,
     category |-> context.proposed_category,
     priority |-> context.proposed_priority,
     quick_win |-> FALSE,
     confidence |-> PercentInt(context.confidence),
     reasoning |-> "AI verification skipped",
     action |-> "confirmed",
     triaged_by |-> "deterministic"]

\* the TriageResult of the skip_ai branch
DeterministicResult(item, context) ==
    [id |-> item.id,
     category |-> OrElse(context.proposed_category, "Action-Required"),
     priority |-> OrElse(context.proposed_priority, "P2"),
     quick_win |-> FALSE,
     confidence |-> PercentInt(context.confidence),
     reasoning |-> "AI verification skipped",
     action |-> "confirmed",
     triaged_by |-> "deterministic"]

\* the TriageResult built from the classification
VerifiedResult(item, c) ==
    [id |-> item.id, category |-> c.category, priority |-> c.priority,
     quick_win |-> c.quick_win, confidence |-> c.confidence,
     reasoning |-> c.reasoning, action |-> c.action,
     triaged_by |-> "ai-verified"]

\* POST /triage
Triage(item, skip_ai, q, oracle, upsertFails, merges) ==
    LET entities == Signals[item].entities
        similar == find_similar(index, item, TriageTopK, MIN_SIMILARITY,
                                item.zone, TRUE, q)
        rules == Signals[item].rules
        context == MergeContext(rules, similar)
        c == classify(context, oracle)
        req == [op |-> "triage", id |-> item.id, skip_ai |-> skip_ai,
                index_fails |-> q.fails,
                entities |-> entities, similar |-> similar, rules |-> rules,
                context |-> context]
    IN  /\ served < MaxRequests
        /\ served' = served + 1
        /\ UNCHANGED <<triage, corrections>>
        /\ UNCHANGED rulesVars
        /\ UNCHANGED lambdaVars
        /\ IF find_similar_raises(q)
           THEN /\ index' = index
                /\ last' = [op |-> "triage", id |-> item.id, skip_ai |-> skip_ai,
                            index_fails |-> q.fails,
                            entities |-> entities, similar |-> <<>>,
                            rules |-> rules, context |-> None,
                            oracle |-> "skipped", out |-> None,
                            classification |-> None,
                            status |-> "error", error |-> "find_similar",
                            result |-> None]
           ELSE IF skip_ai
           THEN /\ index' = index
                /\ last' = req @@ [oracle |-> "skipped", out |-> None,
                                   classification |-> None,
                                   status |-> "ok", error |-> "none",
                                   result |-> DeterministicResult(item, context)]
           ELSE IF c.raised
           THEN /\ index' = index
                /\ last' = req @@ [oracle |-> "raised", out |-> None,
                                   classification |-> None,
                                   status |-> "error", error |-> "classify",
                                   result |-> None]
           ELSE IF upsertFails
           THEN /\ index' = index
                /\ last' = req @@ [oracle |-> IF oracle.raises THEN "raised"
                                              ELSE "returned",
                                   out |-> oracle.out, classification |-> c,
                                   status |-> "error", error |-> "upsert",
                                   result |-> None]
           ELSE /\ index' = upsert_item(index, item, c.category, c.priority, merges)
                /\ last' = req @@ [oracle |-> IF oracle.raises THEN "raised"
                                              ELSE "returned",
                                   out |-> oracle.out, classification |-> c,
                                   status |-> "ok", error |-> "none",
                                   result |-> VerifiedResult(item, c)]

\* the index update the correction handler asks vectors.py for
upsert_item_by_id(idx, item_id, category, priority) ==
    IF idx[item_id].present
    THEN [idx EXCEPT ![item_id].category = category,
                     ![item_id].priority = priority]
    ELSE idx

\* POST /correct; db names the storage call that raises on this request
\* ("none": all three succeed)
Correct(intake_id, corrected_category, corrected_priority, supplied, db, now) ==
    LET original == get_original_triage(triage, intake_id)
        hist == record_correction(corrections, intake_id, corrected_category,
                                  corrected_priority, original[1], original[2],
                                  now)
        tbl == update_triage_with_correction(triage, intake_id,
                                             corrected_category,
                                             corrected_priority)
        imported == "upsert_item_by_id" \in VectorsNames
        req == [op |-> "correct", id |-> intake_id, db |-> db,
                supplied |-> supplied,
                corrected_category |-> corrected_category,
                corrected_priority |-> corrected_priority]
    IN  /\ served < MaxRequests
        /\ served' = served + 1
        /\ Len(corrections) < MaxCorrections
        /\ UNCHANGED rulesVars
        /\ UNCHANGED lambdaVars
        /\ corrections' = IF db \in {"read", "insert"} THEN corrections ELSE hist
        /\ triage' = IF db = "none" THEN tbl ELSE triage
        /\ index' = IF db = "none" /\ imported
                    THEN upsert_item_by_id(index, intake_id, corrected_category,
                                           corrected_priority)
                    ELSE index
        /\ last' = req @@ [status |-> IF db = "none" /\ imported
                                      THEN "recorded" ELSE "error500",
                           original |-> original,
                           triage_updated |-> db = "none" /\ triage[intake_id].present]

\* POST /similar
Similar(item, top_k, zone, q) ==
    /\ served < MaxRequests
    /\ served' = served + 1
    /\ last' = [op |-> "similar", id |-> item.id,
                status |-> IF find_similar_raises(q) THEN "error" ELSE "ok",
                out |-> IF find_similar_raises(q) THEN <<>>
                        ELSE find_similar(index, item, top_k, MIN_SIMILARITY,
                                          zone, FALSE, q)]
    /\ UNCHANGED <<index, triage, corrections>>
    /\ UNCHANGED rulesVars
    /\ UNCHANGED lambdaVars

\* POST /entities, with the text of an item
Entities(item) ==
    /\ served < MaxRequests
    /\ served' = served + 1
    /\ last' = [op |-> "entities", id |-> item.id, status |-> "ok",
                out |-> Signals[item].entities]
    /\ UNCHANGED <<index, triage, corrections>>
    /\ UNCHANGED rulesVars
    /\ UNCHANGED lambdaVars

\* the mutant of Persist: a re-submitted item's row is overwritten
PersistOverwrite ==
    /\ last.op = "triage" /\ last.status = "ok"
    /\ triage' = [triage EXCEPT ![last.id] =
                    [present |-> TRUE, category |-> last.result.category,
                     priority |-> last.result.priority,
                     triaged_by |-> last.result.triaged_by]]
    /\ last' = [op |-> "persist", id |-> last.id]
    /\ UNCHANGED <<index, corrections, served>>
    /\ UNCHANGED rulesVars
    /\ UNCHANGED lambdaVars

\* the intake system that shares the database stores a returned TriageResult
\* as the item's triage row, when the item has none
Persist ==
    /\ last.op = "triage" /\ last.status = "ok"
    /\ ~triage[last.id].present
    /\ triage' = [triage EXCEPT ![last.id] =
                    [present |-> TRUE, category |-> last.result.category,
                     priority |-> last.result.priority,
                     triaged_by |-> last.result.triaged_by]]
    /\ last' = [op |-> "persist", id |-> last.id]
    /\ UNCHANGED <<index, corrections, served>>
    /\ UNCHANGED rulesVars
    /\ UNCHANGED lambdaVars

\* what collection.upsert can do with the item: replace or merge the metadata
\* of an id already stored (one outcome for a new id or without an upsert)
UpsertKinds(idx, item, noUpsert) ==
    IF noUpsert \/ ~idx[item.id].present THEN {FALSE} ELSE BOOLEAN

StoreStep ==
    /\ served < MaxRequests
    /\ \E item \in Items, p \in StoreParams, f \in BOOLEAN :
        \E merges \in UpsertKinds(index, item, f) : Store(item, p[1], p[2], f, merges)

TriageStep ==
    /\ served < MaxRequests
    /\ \E item \in Items, skip_ai \in BOOLEAN :
        \E q \in QueryOutcomes(index, EmbeddingText(item), item.zone, TRUE),
           oracle \in IF skip_ai THEN {NotCalled} ELSE OracleOutcomes,
           f \in IF skip_ai THEN {FALSE} ELSE BOOLEAN :
            \E merges \in UpsertKinds(index, item, skip_ai \/ f) :
                Triage(item, skip_ai, q, oracle, f, merges)

CorrectStep ==
    /\ served < MaxRequests /\ Len(corrections) < MaxCorrections
    /\ \E i \in Ids, v \in CorrectionValues, tick \in Ticks,
       db \in {"none", "read", "insert", "update"} :
        Correct(i, v[1], v[2], <<v[3], v[4]>>, db, LastStamp(corrections) + tick)

SimilarStep ==
    /\ served < MaxRequests
    /\ \E item \in Items :
        \E q \in QueryOutcomes(index, EmbeddingText(item), item.zone, FALSE) :
            Similar(item, TriageTopK, item.zone, q)

EntitiesStep == served < MaxRequests /\ \E item \in Items : Entities(item)

Next ==
    StoreStep \/ TriageStep \/ CorrectStep \/ SimilarStep \/ EntitiesStep \/ Persist

Spec == Init /\ [][Next]_vars

(***************************************************************************)
(* Claims on the service                                                   *)
(***************************************************************************)
\* the step just taken handled a /correct request
IsCorrectStep == served' = served + 1 /\ last'.op = "correct"

\* the step appended exactly one CorrectionRecord, for the corrected item and
\* with the corrected values, and left the earlier records as they were
AppendsOneRecord ==
    /\ Len(corrections') = Len(corrections) + 1
    /\ SubSeq(corrections', 1, Len(corrections)) = corrections
    /\ corrections'[Len(corrections')].intake_id = last'.id
    /\ corrections'[Len(corrections')].corrected_category = last'.corrected_category
    /\ corrections'[Len(corrections')].corrected_priority = last'.corrected_priority

\* the step set the item's current triage record, if it has one, to the
\* corrected values with triaged_by = user
SetsCurrentTriage ==
    triage[last'.id].present =>
        /\ triage'[last'.id].present
        /\ triage'[last'.id].category = last'.corrected_category
        /\ triage'[last'.id].priority = last'.corrected_priority
        /\ triage'[last'.id].triaged_by = "user"

\* C3 as stated: classify never raises; a failing oracle call ends in a
\* returned fallback Classification, for every context /triage can build
C3_ClassifyNeverRaises ==
    (last.op = "triage" /\ last.oracle = "raised") => last.error # "classify"

C5_IndexFailureNotFatal ==
    (last.op = "correct" /\ last.db = "none") => last.status = "recorded"

\* C6 as stated: after a correction of an item present in the similarity
\* index, the index entry of that id carries the corrected category and
\* priority
C6_IndexCarriesCorrection ==
    (last.op = "correct" /\ last.db = "none" /\ index[last.id].present) =>
        /\ index[last.id].category = last.corrected_category
        /\ index[last.id].priority = last.corrected_priority

\* the index entry of the item of the last /triage carries the returned
\* category and priority
IndexHasResult ==
    /\ index[last.id].present
    /\ index[last.id].category = last.result.category
    /\ index[last.id].priority = last.result.priority

\* C7 as stated: every /triage that returns a TriageResult, with skip_ai true
\* or false, has upserted the item with the returned category and priority
C7_TriageUpserts ==
    (last.op = "triage" /\ last.status = "ok") => IndexHasResult

\* C7 amended: every /triage with skip_ai=false that returns a TriageResult
\* has upserted the item with the returned category and priority (with
\* skip_ai=true the index is not written)
C7_VerifiedTriageUpserts ==
    (last.op = "triage" /\ last.status = "ok" /\ ~last.skip_ai) => IndexHasResult

\* a verified /triage returned after the oracle failed, and the index holds
\* the fallback's category
C7_Witness ==
    /\ last.op = "triage" /\ last.status = "ok" /\ ~last.skip_ai
    /\ last.oracle = "raised"
    /\ index[last.id].present
    /\ index[last.id].category = "Action-Required"

\* C8 as stated: after a successful /triage the triage store holds a current
\* TriageResult for that id with the emitted category and priority
C8_TriagePersists ==
    (last.op = "triage" /\ last.status = "ok") =>
        /\ triage[last.id].present
        /\ triage[last.id].category = last.result.category
        /\ triage[last.id].priority = last.result.priority

InEnums(category, priority) ==
    /\ category # None => category \in Category
    /\ priority # None => priority \in Priority

\* C9 as stated: every category and priority held in a returned TriageResult,
\* the current triage record, a CorrectionRecord or an index entry is a member
\* of the closed sets
C9_ClosedEnums ==
    /\ \A i \in Ids :
        /\ index[i].present => InEnums(index[i].category, index[i].priority)
        /\ triage[i].present => InEnums(triage[i].category, triage[i].priority)
    /\ \A k \in 1..Len(corrections) :
        /\ InEnums(corrections[k].original_category, corrections[k].original_priority)
        /\ InEnums(corrections[k].corrected_category, corrections[k].corrected_priority)
    /\ (last.op = "triage" /\ last.status = "ok") =>
            InEnums(last.result.category, last.result.priority)

\* C10 as stated: classify returns the oracle's Classification unchanged when
\* the oracle call returns, and the fallback exactly when it raises, with
\* action=confirmed, the proposed category or Action-Required, the proposed
\* priority or P2, and quick_win=false
C10_FallbackIffOracleRaises ==
    (last.op = "triage" /\ ~last.skip_ai) =>
        /\ last.oracle = "returned" =>
            /\ last.error # "classify"
            /\ last.classification.action = last.out.action
            /\ last.classification.category = last.out.category
            /\ last.classification.priority = last.out.priority
            /\ last.classification.quick_win = last.out.quick_win
            /\ last.classification.confidence = last.out.confidence
            /\ last.classification.reasoning = last.out.reasoning
        /\ last.oracle = "raised" =>
            /\ last.error # "classify"
            /\ last.classification.action = "confirmed"
            /\ last.classification.category =
                    OrElse(last.context.proposed_category, "Action-Required")
            /\ last.classification.priority =
                    OrElse(last.context.proposed_priority, "P2")
            /\ last.classification.quick_win = FALSE

\* round(c * 100) of a float confidence c
RoundPercent(c) == (c * 100 + 500000) \div 1000000

\* C11 as stated: the fallback Classification's confidence equals
\* round(deterministic confidence * 100), for every confidence /triage hands
\* to the verifier
C11_FallbackRounds ==
    (last.op = "triage" /\ last.oracle = "raised" /\ last.error # "classify") =>
        last.classification.confidence = RoundPercent(last.context.confidence)

\* C12 as stated: when the oracle failed and the fallback was used, the
\* returned TriageResult reveals it: its triaged_by is not the one of an
\* oracle-verified result, and its reasoning is none an oracle gave
C12_FallbackRevealed ==
    (last.op = "triage" /\ last.status = "ok" /\ last.oracle = "raised") =>
        /\ last.result.triaged_by # "ai-verified"
        /\ \A o \in OracleOutputs : last.result.reasoning # o.reasoning

\* C13 as stated: no failure of the similarity index propagates from
\* find_similar to /triage; on an empty index and on a failure of the backing
\* index during the call the neighbour list is empty
C13_IndexFailureAbsorbed ==
    last.op = "triage" =>
        /\ last.error # "find_similar"
        /\ (last.index_fails # "no" \/ Count(index) = 0) => last.similar = <<>>

\* C20: /triage with skip_ai=true does not call the oracle and returns the
\* deterministic-only result (triaged_by=deterministic, action=confirmed,
\* quick_win=false, the merged proposal or Action-Required / P2); with
\* skip_ai=false the result has triaged_by=ai-verified
C20_SkipAiDeterministic ==
    (last.op = "triage" /\ last.status = "ok") =>
        IF last.skip_ai
        THEN /\ last.oracle = "skipped"
             /\ last.result.triaged_by = "deterministic"
             /\ last.result.action = "confirmed"
             /\ last.result.quick_win = FALSE
             /\ last.result.category =
                    (IF last.context.proposed_category = None
                     THEN "Action-Required" ELSE last.context.proposed_category)
             /\ last.result.priority =
                    (IF last.context.proposed_priority = None
                     THEN "P2" ELSE last.context.proposed_priority)
        ELSE last.result.triaged_by = "ai-verified"

\* a skip_ai triage of an item without any proposal returned the defaults
C20_Witness ==
    /\ last.op = "triage" /\ last.status = "ok" /\ last.skip_ai
    /\ last.context.proposed_category = None
    /\ last.context.proposed_priority = None
    /\ last.result.category = "Action-Required"
    /\ last.result.priority = "P2"
    /\ last.result.triaged_by = "deterministic"

(***************************************************************************)
(* Claims on the correction history and the current triage record          *)
(***************************************************************************)
\* the record the step appended
NewRecord == corrections'[Len(corrections')]

\* the /correct call of the step got through record_correction
RecordWritten == IsCorrectStep /\ last'.db \notin {"read", "insert"}

C22_CorrectUpdatesInPlace ==
    [][IsCorrectStep =>
        /\ \A i \in Ids : triage'[i].present = triage[i].present
        /\ (last'.db = "none" /\ ~triage[last'.id].present) =>
            /\ Len(corrections') = Len(corrections) + 1
            /\ NewRecord.original_category = None
            /\ NewRecord.original_priority = None
            /\ last'.status = "recorded"
            /\ last'.triage_updated = FALSE]_vars

\* C23: once an item has a current triage record, only /correct on that item
\* changes it: /triage, /store, /similar and /entities leave the current
\* triage records and the correction history unchanged, and after a
\* correction triaged_by stays 'user'
C23_OnlyCorrectChanges ==
    [][/\ \A i \in Ids :
            triage[i].present =>
                /\ triage'[i].present
                /\ ~(IsCorrectStep /\ last'.id = i) => triage'[i] = triage[i]
                /\ triage[i].triaged_by = "user" => triage'[i].triaged_by = "user"
       /\ ~IsCorrectStep => corrections' = corrections]_vars

\* a corrected item was submitted to /triage again: its record still holds
\* the correction
C23_Witness ==
    /\ last.op = "triage" /\ last.status = "ok"
    /\ triage[last.id].present
    /\ triage[last.id].triaged_by = "user"
    /\ Len(corrections) = 1
    /\ corrections[1].intake_id = last.id
    /\ triage[last.id].category = corrections[1].corrected_category

\* the originals of the appended record are the triage values the item had
\* before the call
OriginalsAreCurrent ==
    /\ NewRecord.original_category =
            (IF triage[last'.id].present THEN triage[last'.id].category ELSE None)
    /\ NewRecord.original_priority =
            (IF triage[last'.id].present THEN triage[last'.id].priority ELSE None)

\* the originals of the appended record are the corrected values of the
\* /correct call before it
OriginalsFollow ==
    /\ NewRecord.original_category = last.corrected_category
    /\ NewRecord.original_priority = last.corrected_priority

C31_AllOrNothing ==
    [][(IsCorrectStep /\ last'.status = "error500") =>
            (corrections' = corrections /\ triage' = triage)]_vars

\* C40: in every DeterministicContext built by /triage a confidence above 0
\* comes with a proposed category: the similarity boost never raises the
\* confidence of a context without a proposal
C40_ConfidenceNeedsProposal ==
    (last.op = "triage" /\ last.error # "find_similar") =>
        /\ last.context.confidence > 0 => last.context.proposed_category # None
        /\ last.rules.category = None =>
              \A k \in 1..Len(last.similar) : last.similar[k].category # None

\* no rule proposal and a top neighbour above 0.7: the neighbour was adopted
C40_Witness ==
    /\ last.op = "triage" /\ last.error # "find_similar"
    /\ last.rules.category = None
    /\ Len(last.similar) > 0
    /\ last.similar[1].similarity > 700
    /\ last.context.confidence > 0
    /\ last.context.proposed_category = last.similar[1].category

(***************************************************************************)
(* The rule engine on its own: apply_rules over a pool of items, entity    *)
(* sets and VIP configurations                                             *)
(***************************************************************************)
Pad10 == "0123456789"
Pad50 == Pad10 \o Pad10 \o Pad10 \o Pad10 \o Pad10
Pad500 == Pad50 \o Pad50 \o Pad50 \o Pad50 \o Pad50
            \o Pad50 \o Pad50 \o Pad50 \o Pad50 \o Pad50

RuleSubjects == {"", "Urgent: contract due", "Weekly Digest", "Quick call?"}
RuleBodies == {"", "need this today", "urgent deals inside, click to Unsubscribe",
               "why? " \o Pad500}
RuleSenders == {"", "boss@co.com", "noreply@mailer.com", "CEO@corp.com"}
RuleCues == {<<>>, <<"urgent", "today">>}
VipConfigs == {VIP_PATTERNS, <<"ceo@">>}

RuleItems ==
    [id : {"r"}, zone : {"work"}, source : {"email"}, type : {"email", "calendar"},
     subject : RuleSubjects, body : RuleBodies, from_name : {""},
     from_address : RuleSenders]

InitRules ==
    /\ rItem \in RuleItems
    /\ rCues \in RuleCues
    /\ vipPatterns \in VipConfigs
    /\ rOut = NotApplied
    /\ LambdaIdle
    /\ index = <<>> /\ triage = <<>> /\ corrections = <<>> /\ last = <<>>
    /\ served = 0

RulesApply ==
    /\ ~rOut.applied
    /\ rOut' = Applied(apply_rules(rItem, [urgency_cues |-> rCues], vipPatterns))
    /\ UNCHANGED <<rItem, rCues, vipPatterns>>
    /\ UNCHANGED serviceVars
    /\ UNCHANGED lambdaVars

NextRules == RulesApply

SpecRules == InitRules /\ [][NextRules]_vars

\* the claims' own reading of "a newsletter pattern matches" and "a VIP
\* pattern matches", on the harness inputs
NewsletterMatches ==
    \E p \in {"noreply@", "newsletter@", "digest@", "no-reply@", "unsubscribe"} :
        \/ Contains(LowerStr(rItem.from_address), p)
        \/ Contains(LowerStr(rItem.subject \o " " \o rItem.body), p)

VipMatches ==
    \E k \in 1..Len(vipPatterns) :
        Contains(LowerStr(rItem.from_address), LowerStr(vipPatterns[k]))

\* C1: whenever a newsletter pattern matches the sender address or the
\* subject+body text, apply_rules returns FYI / P3 with confidence >= 0.8,
\* whatever matched before it
C1_NewsletterWins ==
    (rOut.applied /\ NewsletterMatches) =>
        /\ rOut.category = "FYI"
        /\ rOut.priority = "P3"
        /\ rOut.confidence >= 800000

\* urgency cue "urgent" with a newsletter sender: an earlier rule had fired
C1_Witness ==
    /\ rOut.applied /\ NewsletterMatches
    /\ InSeq("urgent", rCues)
    /\ rItem.from_address = "noreply@mailer.com"
    /\ rOut.matches[1] = "urgency-cues: urgent, today"
    /\ rOut.category = "FYI"

\* C2 as stated: after a VIP match the result is Action-Required / P1 / 0.9
\* and no later rule changes it
C2_VipFinal ==
    (rOut.applied /\ VipMatches) =>
        /\ rOut.category = "Action-Required"
        /\ rOut.priority = "P1"
        /\ rOut.confidence = 900000

\* C2 amended: after a VIP match the confidence is exactly 0.9 and the
\* result is Action-Required / P1, unless a newsletter pattern matches too,
\* which overwrites category and priority with FYI / P3
C2_VipUnlessNewsletter ==
    (rOut.applied /\ VipMatches) =>
        /\ rOut.confidence = 900000
        /\ rOut.matches[1] = "vip-sender"
        /\ IF NewsletterMatches
           THEN rOut.category = "FYI" /\ rOut.priority = "P3"
           ELSE rOut.category = "Action-Required" /\ rOut.priority = "P1"

\* a VIP sender with urgency cues, a short question and no newsletter pattern
C2_Witness ==
    /\ rOut.applied /\ VipMatches /\ ~NewsletterMatches
    /\ Len(rCues) > 0
    /\ InSeq("short-question", rOut.matches)
    /\ rOut.category = "Action-Required"

\* the claims' own reading of the other rules' conditions, on the harness
\* inputs
ClaimText == LowerStr(rItem.subject \o " " \o rItem.body)

CuesPresent == Len(rCues) > 0

KeywordMatches ==
    \E w \in {"urgent", "asap", "immediately", "emergency", "critical",
              "deadline", "today", "eod"} : Contains(ClaimText, w)

ShortQuestionMatches == Contains(ClaimText, "?") /\ Len(ClaimText) < 500

MeetingMatches ==
    \/ rItem.type = "calendar"
    \/ Contains(ClaimText, "meeting")
    \/ Contains(ClaimText, "call")

\* the rule a label of rule_matches belongs to (the urgency-cue label carries
\* the first cues after its name)
RuleOf(label) ==
    IF Len(label) >= 12 /\ SubSeq(label, 1, 12) = "urgency-cues" THEN "urgency-cues"
    ELSE label

FiredRules == [k \in 1..Len(rOut.matches) |-> RuleOf(rOut.matches[k])]

\* category and priority a rule sets when it is the one to set them
ProposalOf(rule) ==
    IF rule = "newsletter-pattern" THEN <<"FYI", "P3">>
    ELSE IF rule = "short-question" THEN <<"Action-Required", "P2">>
    ELSE IF rule = "meeting-indicator" THEN <<"Scheduled", "P2">>
    ELSE <<"Action-Required", "P1">>

\* C32: the urgency-cue, urgent-keyword, short-question and meeting rules
\* append their label and never overwrite a category or priority set before
\* them: without a newsletter match the result carries the category and
\* priority of the first rule that fired, and after a newsletter match the
\* later rules leave FYI / P3 in place
C32_FirstRuleWins ==
    rOut.applied =>
        /\ (CuesPresent => InSeq("urgency-cues", FiredRules))
        /\ (KeywordMatches => InSeq("urgent-keywords", FiredRules))
        /\ (ShortQuestionMatches => InSeq("short-question", FiredRules))
        /\ (MeetingMatches => InSeq("meeting-indicator", FiredRules))
        /\ (~NewsletterMatches /\ Len(FiredRules) > 0) =>
              <<rOut.category, rOut.priority>> = ProposalOf(FiredRules[1])
        /\ NewsletterMatches => <<rOut.category, rOut.priority>> = <<"FYI", "P3">>

\* an urgent keyword, then a short question about a call: the two later
\* rules fired and left Action-Required / P1
C32_Witness ==
    /\ rOut.applied /\ ~NewsletterMatches
    /\ FiredRules = <<"urgent-keywords", "short-question", "meeting-indicator">>
    /\ rOut.category = "Action-Required" /\ rOut.priority = "P1"

\* the confidence floor of a rule, in micro-units
FloorOf(rule) ==
    IF rule = "vip-sender" THEN 900000
    ELSE IF rule = "newsletter-pattern" THEN 800000
    ELSE IF rule = "urgency-cues" THEN 700000
    ELSE IF rule = "short-question" THEN 500000
    ELSE 600000

\* C33: the confidence apply_rules returns is at least the floor of every
\* rule that fired: 0.7 urgency cues, 0.6 urgent keyword, 0.8 newsletter,
\* 0.5 short question, 0.6 meeting rule
C33_ConfidenceFloors ==
    rOut.applied =>
        \A k \in 1..Len(FiredRules) : rOut.confidence >= FloorOf(FiredRules[k])

\* C34: apply_rules returns (empty list, null, null, 0.0) when no rule
\* matches, and in every result the category is null iff the priority is
\* null iff rule_matches is empty iff the confidence is 0.0; the result is
\* determined by the item, the entities and the configured patterns
C34_EmptyOrProposed ==
    rOut.applied =>
        /\ (rOut.category = None) <=> (rOut.priority = None)
        /\ (rOut.category = None) <=> (rOut.matches = <<>>)
        /\ (rOut.matches = <<>>) <=> (rOut.confidence = 0)
        /\ rOut.confidence \in 0..1000000
        /\ (~VipMatches /\ ~CuesPresent /\ ~KeywordMatches /\ ~NewsletterMatches
                /\ ~ShortQuestionMatches /\ ~MeetingMatches)
              <=> rOut = [applied |-> TRUE, matches |-> <<>>, category |-> None,
                          priority |-> None, confidence |-> 0]

\* one item no rule matches, and apply_rules has run on it
C34_Witness ==
    /\ rOut.applied
    /\ rItem.subject = "" /\ rItem.body = "" /\ rItem.from_address = "boss@co.com"
    /\ rItem.type = "email" /\ rCues = <<>>
    /\ rOut.matches = <<>> /\ rOut.confidence = 0

\* the labels of the rules whose condition holds, in evaluation order
ExpectedRules ==
    (IF VipMatches THEN <<"vip-sender">> ELSE <<>>)
    \o (IF CuesPresent THEN <<"urgency-cues">> ELSE <<>>)
    \o (IF KeywordMatches THEN <<"urgent-keywords">> ELSE <<>>)
    \o (IF NewsletterMatches THEN <<"newsletter-pattern">> ELSE <<>>)
    \o (IF ShortQuestionMatches THEN <<"short-question">> ELSE <<>>)
    \o (IF MeetingMatches THEN <<"meeting-indicator">> ELSE <<>>)

\* C35: rule_matches holds the labels of exactly the rules that fired, each
\* once, in the order vip-sender, urgency-cues, urgent-keywords,
\* newsletter-pattern, short-question, meeting-indicator
C35_LabelsInOrder ==
    rOut.applied =>
        /\ FiredRules = ExpectedRules
        /\ \A j, k \in 1..Len(FiredRules) : FiredRules[j] = FiredRules[k] => j = k

\* all six rules fired on one item
C35_Witness ==
    /\ rOut.applied
    /\ FiredRules = <<"vip-sender", "urgency-cues", "urgent-keywords",
                      "newsletter-pattern", "short-question", "meeting-indicator">>
    /\ rOut.matches[2] = "urgency-cues: urgent, today"

(***************************************************************************)
(* The index client on its own: upsert_item and find_similar over a pool   *)
(* of items, index contents, parameters and index distances                *)
(***************************************************************************)
MaxTopK == 2

\* the category and priority given to upsert_item
UpsertParams == {<<None, None>>, <<"FYI", "P3">>}

\* index distances in thousandths: 1/(1+d) is 0.8, 0.50025 and 0.4
IndexDistances == {250, 999, 1500}

\* min_similarity in ten-thousandths: the default, and 0.5002
MinSimilarities == {MIN_SIMILARITY, 5002}

\* zone=None and zone="work"
ZoneFilters == {"", "work"}

\* what the index can hold for an item: nothing, or what an upsert_item of
\* it left
EntriesOf(item) ==
    {NoEntry} \cup {EntryOf(item, EmbeddingText(item), p[1], p[2]) : p \in UpsertParams}

ItemOf(id) == CHOOSE it \in IndexItems : it.id = id

InitIndex ==
    /\ index \in {idx \in [IndexIds -> UNION {EntriesOf(it) : it \in IndexItems}] :
                    \A i \in IndexIds : idx[i] \in EntriesOf(ItemOf(i))}
    /\ last = [op |-> "none"]
    /\ triage = <<>> /\ corrections = <<>> /\ served = 0
    /\ rItem = ItemA /\ rCues = <<>> /\ vipPatterns = VIP_PATTERNS
    /\ rOut = NotApplied
    /\ LambdaIdle

\* upsert_item(item, category, priority)
Upsert(item, category, priority, merges) ==
    /\ index' = upsert_item(index, item, category, priority, merges)
    /\ last' = [op |-> "upsert", id |-> item.id, item |-> item,
                category |-> category, priority |-> priority]
    /\ UNCHANGED <<triage, corrections, served>>
    /\ UNCHANGED rulesVars
    /\ UNCHANGED lambdaVars

\* find_similar(item, top_k, min_similarity, zone, require_triaged)
FindSimilar(item, top_k, min_similarity, zone, require_triaged, q) ==
    /\ last' = [op |-> "find_similar", id |-> item.id, top_k |-> top_k,
                min_similarity |-> min_similarity, zone |-> zone,
                require_triaged |-> require_triaged,
                index_fails |-> q.fails, dist |-> q.dist,
                raised |-> find_similar_raises(q),
                out |-> IF find_similar_raises(q) THEN <<>>
                        ELSE find_similar(index, item, top_k, min_similarity,
                                          zone, require_triaged, q)]
    /\ UNCHANGED <<index, triage, corrections, served>>
    /\ UNCHANGED rulesVars
    /\ UNCHANGED lambdaVars

\* each index content of InitIndex gets one call
UpsertStep ==
    /\ last.op = "none"
    /\ \E item \in IndexItems, p \in UpsertParams, merges \in BOOLEAN :
        Upsert(item, p[1], p[2], merges)

FindSimilarStep ==
    /\ last.op = "none"
    /\ \E item \in IndexItems, top_k \in 1..MaxTopK, m \in MinSimilarities,
       zone \in ZoneFilters, require_triaged \in BOOLEAN :
        \E q \in QueryOutcomesOver(index, EmbeddingText(item), zone,
                                   require_triaged, IndexDistances) :
            FindSimilar(item, top_k, m, zone, require_triaged, q)

NextIndex == UpsertStep \/ FindSimilarStep

SpecIndex == InitIndex /\ [][NextIndex]_vars

(***************************************************************************)
(* Claims on the index client                                              *)
(***************************************************************************)
\* find_similar returned on a working index
Found == last.op = "find_similar" /\ last.index_fails = "no"

OutIds == {last.out[k].id : k \in 1..Len(last.out)}

\* C14: no SimilarItem returned by find_similar has the querying item's own
\* id, also when that id is stored in the index
C14_NoSelfNeighbour ==
    last.op = "find_similar" => last.id \notin OutIds

\* the querying item was stored, the index gave it back among the nearest
\* entries, and find_similar returned another entry
C14_Witness ==
    /\ Found
    /\ index[last.id].present
    /\ last.id \in DOMAIN last.dist
    /\ last.dist[last.id] = 0
    /\ Len(last.out) > 0
    /\ last.id \notin OutIds

\* the entries that pass the zone / triaged filter and the similarity threshold
\* of the last call, other than the querying item
Passing ==
    {c \in IndexIds \ {last.id} :
        /\ index[c].present
        /\ (last.zone # "" => index[c].zone = last.zone)
        /\ (last.require_triaged => index[c].category # None)
        /\ 10000000 >= last.min_similarity * (1000 + last.dist[c])}

\* C15: find_similar returns at most top_k items in non-increasing order of
\* similarity, and they are the top_k most similar entries that pass the
\* filter and the similarity threshold, other than the querying item itself
C15_TopKMostSimilar ==
    Found =>
        /\ Len(last.out) <= last.top_k
        /\ \A k \in 1..(Len(last.out) - 1) :
                last.out[k].similarity >= last.out[k + 1].similarity
        /\ Len(last.out) = Min(last.top_k, Cardinality(Passing))
        /\ Cardinality(OutIds) = Len(last.out)
        /\ OutIds \subseteq Passing
        /\ \A c \in Passing \ OutIds : \A r \in OutIds : last.dist[r] <= last.dist[c]
        /\ \A k \in 1..Len(last.out) :
                /\ last.out[k].category = index[last.out[k].id].category
                /\ last.out[k].priority = index[last.out[k].id].priority

\* top_k = 1 with the querying item stored and two other entries passing: the
\* nearer one was returned
C15_Witness ==
    /\ Found
    /\ last.top_k = 1
    /\ index[last.id].present /\ last.id \in DOMAIN last.dist
    /\ Cardinality(Passing) >= 2
    /\ Len(last.out) = 1
    /\ \E c \in Passing \ OutIds : last.dist[c] > last.dist[last.out[1].id]

\* the similarity 1 / (1 + d) as a fraction, d in thousandths
Fraction(d) == [num |-> 1000, den |-> 1000 + d]
FracLess(x, y) == x.num * y.den < y.num * x.den

\* for every distance d >= 0 of the last call, 1 / (1 + d) lies in (0, 1] and
\* is strictly decreasing in d
SimilarityDecreasing ==
    \A c \in DOMAIN last.dist :
        /\ Fraction(last.dist[c]).num > 0
        /\ Fraction(last.dist[c]).num <= Fraction(last.dist[c]).den
        /\ \A e \in DOMAIN last.dist :
                last.dist[c] < last.dist[e] =>
                    FracLess(Fraction(last.dist[e]), Fraction(last.dist[c]))

\* C16 as stated: 1 / (1 + d) lies in (0, 1] and is strictly decreasing in d,
\* and every returned SimilarItem has a similarity, rounded to 3 decimals, of
\* at least min_similarity and at most 1
C16_AtLeastMinSimilarity ==
    Found =>
        /\ SimilarityDecreasing
        /\ \A k \in 1..Len(last.out) :
                /\ 10 * last.out[k].similarity >= last.min_similarity
                /\ last.out[k].similarity <= 1000

\* min_similarity (ten-thousandths) rounded to 3 decimals (thousandths)
RoundedMin(m) == (m + 5) \div 10

\* C16 amended: 1 / (1 + d) lies in (0, 1] and is strictly decreasing in d;
\* every returned SimilarItem comes from an entry whose unrounded similarity
\* is at least min_similarity, and its similarity rounded to 3 decimals is at
\* least min_similarity rounded to 3 decimals and at most 1
C16_AtLeastRoundedMin ==
    Found =>
        /\ SimilarityDecreasing
        /\ \A k \in 1..Len(last.out) :
                /\ 10000000 >= last.min_similarity * (1000 + last.dist[last.out[k].id])
                /\ last.out[k].similarity >= RoundedMin(last.min_similarity)
                /\ last.out[k].similarity <= 1000
                /\ last.out[k].similarity = SimilarityOf(last.dist[last.out[k].id])

\* min_similarity 0.5002 and an entry at distance 0.999: its similarity
\* 0.50025 passes the threshold and is returned as 0.5; another entry has the
\* text of the query and is returned with similarity 1
C16_Witness ==
    /\ Found
    /\ last.min_similarity = 5002
    /\ \E k \in 1..Len(last.out) :
            last.out[k].similarity = 500 /\ last.dist[last.out[k].id] = 999
    /\ \E k \in 1..Len(last.out) : last.out[k].similarity = 1000

\* C17 as stated: after an upsert of an id the stored document and metadata
\* of that id are exactly those of this call (a key the call leaves out is
\* absent), the other entries are as before, and repeating the same upsert
\* changes nothing
C17_UpsertReplaces ==
    [][last'.op = "upsert" =>
        LET it == last'.item
        IN  /\ index'[it.id] = EntryOf(it, EmbeddingText(it), last'.category,
                                       last'.priority)
            /\ \A j \in IndexIds \ {it.id} : index'[j] = index[j]
            /\ \A merges \in BOOLEAN :
                    upsert_item(index', it, last'.category, last'.priority,
                                merges) = index']_vars

(***************************************************************************)
(* The context merge of /triage on its own: MergeContext over the outputs  *)
(* of apply_rules and the neighbour lists find_similar can hand to it      *)
(***************************************************************************)
MaxNeighbours == 2

\* what apply_rules returns on the items of the rule engine harness
RuleOutputs ==
    {apply_rules(it, [urgency_cues |-> c], v) :
        it \in RuleItems, c \in RuleCues, v \in VipConfigs}

\* similarities around the thresholds 0.6 and 0.7; the percent of
\* 0.725 * 0.8 truncates to 57 in doubles
MergeSimilarities == {500, 600, 601, 700, 701, 725, 1000}

\* /triage asks for triaged neighbours only: each has a category
Neighbours ==
    [id : {"n"}, similarity : MergeSimilarities, subject : {None},
     category : {"Action-Required", "FYI", "Scheduled"}, priority : {"P1", None}]

\* the lists find_similar returns: most similar first
NeighbourLists ==
    {q \in UNION {[1..n -> Neighbours] : n \in 0..MaxNeighbours} :
        \A k \in 1..(Len(q) - 1) :
            /\ q[k].similarity >= q[k + 1].similarity
            /\ q[k + 1].category = "FYI" /\ q[k + 1].priority = None}

InitMerge ==
    /\ last \in [op : {"merge-input"}, rules : RuleOutputs, similar : NeighbourLists]
    /\ index = <<>> /\ triage = <<>> /\ corrections = <<>> /\ served = 0
    /\ rItem = ItemA /\ rCues = <<>> /\ vipPatterns = VIP_PATTERNS
    /\ rOut = NotApplied
    /\ LambdaIdle

\* triage_endpoint from the rule result and the neighbours to the
\* DeterministicContext, with the TriageResult of the skip_ai branch and the
\* Classification of the verifier's fallback built from it
Merge ==
    /\ last.op = "merge-input"
    /\ LET context == MergeContext(last.rules, last.similar)
       IN  last' = [op |-> "merge", rules |-> last.rules, similar |-> last.similar,
                    context |-> context,
                    result |-> DeterministicResult(rItem, context),
                    fallback |-> Fallback(context)]
    /\ UNCHANGED <<index, triage, corrections, served>>
    /\ UNCHANGED rulesVars
    /\ UNCHANGED lambdaVars

NextMerge == Merge

SpecMerge == InitMerge /\ [][NextMerge]_vars

\* the top neighbour agrees with the rule proposal and its similarity exceeds
\* 0.7
TopAgrees ==
    /\ Len(last.similar) > 0
    /\ last.similar[1].category = last.rules.category
    /\ last.similar[1].similarity > 700

\* C18: the merged confidence is min(rule_confidence + 0.2, 0.95) (the sum
\* taken in doubles) exactly when the top neighbour's category equals the
\* rule-proposed category and its similarity exceeds 0.7; in every other case
\* with a rule-proposed category the rule confidence is passed on unchanged;
\* the proposal is passed on unchanged in both
C18_BoostOnAgreement ==
    (last.op = "merge" /\ last.rules.category # None) =>
        /\ last.context.proposed_category = last.rules.category
        /\ last.context.proposed_priority = last.rules.priority
        /\ last.context.confidence =
                (IF TopAgrees
                 THEN (IF PlusBoost(last.rules.confidence) > 950000 THEN 950000
                       ELSE PlusBoost(last.rules.confidence))
                 ELSE last.rules.confidence)
        /\ TopAgrees <=> last.context.confidence # last.rules.confidence

\* a rule confidence of 0.9 with an agreeing top neighbour: capped at 0.95
C18_Witness ==
    /\ last.op = "merge" /\ last.rules.category # None
    /\ TopAgrees
    /\ last.rules.confidence = 900000
    /\ last.context.confidence = 950000

\* the neighbours with a category set and a similarity above 0.6
Adoptable ==
    {k \in 1..Len(last.similar) :
        last.similar[k].category # None /\ last.similar[k].similarity > 600}

\* C19: when apply_rules proposes no category, /triage adopts a neighbour's
\* category and priority with confidence = its similarity * 0.8 (the product
\* taken in doubles) if and only if some returned neighbour has a category
\* set and a similarity above 0.6; otherwise the proposal stays absent
C19_AdoptNeighbour ==
    (last.op = "merge" /\ last.rules.category = None) =>
        IF Adoptable # {}
        THEN \E k \in Adoptable :
                /\ last.context.proposed_category = last.similar[k].category
                /\ last.context.proposed_priority = last.similar[k].priority
                /\ last.context.confidence = TimesDiscount(last.similar[k].similarity)
        ELSE /\ last.context.proposed_category = None
             /\ last.context.proposed_priority = last.rules.priority
             /\ last.context.confidence = last.rules.confidence

\* no rule proposal and a top neighbour at similarity 0.725: adopted with
\* confidence 0.725 * 0.8
C19_Witness ==
    /\ last.op = "merge" /\ last.rules.category = None
    /\ Len(last.similar) = 2
    /\ last.similar[1].similarity = 725
    /\ last.context.proposed_category = last.similar[1].category
    /\ last.context.proposed_priority = last.similar[1].priority
    /\ last.context.confidence = 579999

\* C36: the confidence of every DeterministicContext lies in [0, 1] and is
\* at most 0.95; the confidence of the TriageResult of the skip_ai path and
\* of the fallback Classification is an integer from 0 to 100
C36_ConfidenceRanges ==
    last.op = "merge" =>
        /\ last.context.confidence \in 0..950000
        /\ last.result.confidence \in 0..100
        /\ ~last.fallback.raised
        /\ last.fallback.confidence \in 0..100

\* a VIP proposal at 0.9 boosted by an agreeing neighbour: 0.95 and 95
C36_Witness ==
    /\ last.op = "merge"
    /\ last.rules.confidence = 900000
    /\ last.context.confidence = 950000
    /\ last.result.confidence = 95
    /\ last.fallback.confidence = 95

(***************************************************************************)
(* The urgency cue extractor on its own: extract_urgency_cues over texts   *)
(* made of a few phrases                                                   *)
(***************************************************************************)
MaxPhrases == 3

CuePhrases == {"Urgent:", "today", "due by", "expires", "ASAP", "notes"}

RECURSIVE JoinSpaces(_)
JoinSpaces(q) ==
    IF Len(q) = 0 THEN ""
    ELSE IF Len(q) = 1 THEN q[1]
    ELSE q[1] \o " " \o JoinSpaces(Tail(q))

\* the texts given to the extractor: up to MaxPhrases phrases, and the text
\* /triage builds for ItemA
CueTexts ==
    {JoinSpaces(q) : q \in UNION {[1..n -> CuePhrases] : n \in 0..MaxPhrases}}
        \cup {TriageText(ItemA)}

InitCues ==
    /\ last \in [op : {"cues-input"}, text : CueTexts]
    /\ index = <<>> /\ triage = <<>> /\ corrections = <<>> /\ served = 0
    /\ rItem = ItemA /\ rCues = <<>> /\ vipPatterns = VIP_PATTERNS
    /\ rOut = NotApplied
    /\ LambdaIdle

ExtractCues ==
    /\ last.op = "cues-input"
    /\ last' = [op |-> "cues", text |-> last.text,
                out |-> extract_urgency_cues(last.text)]
    /\ UNCHANGED <<index, triage, corrections, served>>
    /\ UNCHANGED rulesVars
    /\ UNCHANGED lambdaVars

NextCues == ExtractCues

SpecCues == InitCues /\ [][NextCues]_vars

\* the substrings of s that some urgency pattern matches, each with the
\* position where it starts
MatchedAt(s) ==
    {<<x[1], SubSeq(s, x[1], x[1] + MatchAt(URGENCY_PATTERNS[x[2]], s, x[1])[1] - 1)>> :
        x \in {y \in (1..Len(s)) \X (1..Len(URGENCY_PATTERNS)) :
                    MatchAt(URGENCY_PATTERNS[y[2]], s, y[1])[1] > 0}}

\* the distinct second components of a set of <<position, substring>>, by
\* the least position of each
RECURSIVE InFirstOccurrenceOrder(_)
InFirstOccurrenceOrder(S) ==
    IF S = {} THEN <<>>
    ELSE LET m == CHOOSE x \in S : \A y \in S : x[1] <= y[1]
         IN  <<m[2]>> \o InFirstOccurrenceOrder({y \in S : y[2] # m[2]})

\* C37: extract_urgency_cues returns each distinct matched substring of the
\* lowercased text once, in the order of first occurrence in the text,
\* whichever pattern matched it
C37_CuesInTextOrder ==
    last.op = "cues" =>
        last.out = InFirstOccurrenceOrder(MatchedAt(LowerStr(last.text)))

(***************************************************************************)
(* The verifier's variant with corrections on its own:                     *)
(* classify_with_corrections over contexts, correction lists and oracle    *)
(* outcomes                                                                *)
(***************************************************************************)
MaxRecent == 6

HintContexts ==
    {[proposed_category |-> None, proposed_priority |-> None, confidence |-> 0,
      rule_matches |-> <<>>],
     [proposed_category |-> "Action-Required", proposed_priority |-> "P1",
      confidence |-> 700000, rule_matches |-> <<"urgent-keywords">>]}

\* the corrections handed over, newest first
RecentCorrections ==
    {[original_category |-> "FYI", original_priority |-> "P3",
      corrected_category |-> "Reference", corrected_priority |-> "P0",
      reason |-> "archive"],
     [original_category |-> None, original_priority |-> None,
      corrected_category |-> "Scheduled", corrected_priority |-> "P2",
      reason |-> None]}

RecentLists == UNION {[1..n -> RecentCorrections] : n \in 0..MaxRecent}

InitHint ==
    /\ last \in [op : {"hint-input"}, context : HintContexts,
                 recent_corrections : RecentLists, oracle : OracleOutcomes]
    /\ index = <<>> /\ triage = <<>> /\ corrections = <<>> /\ served = 0
    /\ rItem = ItemA /\ rCues = <<>> /\ vipPatterns = VIP_PATTERNS
    /\ rOut = NotApplied
    /\ LambdaIdle

ClassifyWithCorrections ==
    /\ last.op = "hint-input"
    /\ last' = [op |-> "hint", context |-> last.context,
                recent_corrections |-> last.recent_corrections,
                oracle |-> last.oracle,
                rule_matches |-> HintedContext(last.context,
                                               last.recent_corrections).rule_matches,
                classification |-> classify_with_corrections(
                                      last.context, last.recent_corrections,
                                      last.oracle)]
    /\ UNCHANGED <<index, triage, corrections, served>>
    /\ UNCHANGED rulesVars
    /\ UNCHANGED lambdaVars

NextHint == ClassifyWithCorrections

SpecHint == InitHint /\ [][NextHint]_vars

\* a correction as the claim renders it: original -> corrected (reason)
Rendered(corr) ==
    Str(corr.original_category) \o "/" \o Str(corr.original_priority)
        \o " -> " \o Str(corr.corrected_category) \o "/" \o Str(corr.corrected_priority)
        \o (IF corr.reason # None THEN " (reason: " \o corr.reason \o ")" ELSE "")

\* C38: given corrections, classify_with_corrections appends to rule_matches
\* one learning hint that renders the (at most 5) most recent of them as
\* original -> corrected (reason), and then classifies as classify does;
\* given none it leaves rule_matches unchanged
C38_LearningHint ==
    last.op = "hint" =>
        /\ last.classification = classify([last.context EXCEPT
                                              !.rule_matches = last.rule_matches],
                                          last.oracle)
        /\ IF Len(last.recent_corrections) = 0
           THEN last.rule_matches = last.context.rule_matches
           ELSE /\ Len(last.rule_matches) = Len(last.context.rule_matches) + 1
                /\ SubSeq(last.rule_matches, 1, Len(last.context.rule_matches))
                        = last.context.rule_matches
                /\ \A k \in 1..Len(last.recent_corrections) :
                      (k <= 5) <=>
                          Contains(last.rule_matches[Len(last.rule_matches)],
                                   Rendered(last.recent_corrections[k]))

(***************************************************************************)
(* /correct with its steps apart: each of get_original_triage,             *)
(* record_correction and update_triage_with_correction opens its own       *)
(* connection and commits when it returns, so the steps of calls that run  *)
(* side by side (several workers or processes on the one database)         *)
(* interleave. `last` holds the calls: where each stands and what it read. *)
(***************************************************************************)
MaxCallers == 2

Callers == 1..MaxCallers

NotStarted ==
    [pc |-> "idle", intake_id |-> None, corrected_category |-> None,
     corrected_priority |-> None, original |-> <<None, None>>, status |-> None]

\* the triage rows the calls can find: none, or one per item
TriageRows ==
    {NoRow, [present |-> TRUE, category |-> "Action-Required", priority |-> "P2",
             triaged_by |-> "ai-verified"]}

InitCorrect ==
    /\ last = [op |-> "correcting", calls |-> [c \in Callers |-> NotStarted]]
    /\ triage \in [Ids -> TriageRows]
    /\ corrections = <<>>
    /\ index = [i \in Ids |-> NoEntry]
    /\ served = 0
    /\ rItem = ItemA /\ rCues = <<>> /\ vipPatterns = VIP_PATTERNS
    /\ rOut = NotApplied
    /\ LambdaIdle

\* the call stops with HTTP 500 (server.py:352-353)
Failed(call) == [call EXCEPT !.pc = "done", !.status = "error500"]

\* server.py:311-313: the request arrives and the handler reads the current
\* triage values
CorrectRead(c, intake_id, corrected_category, corrected_priority, raises) ==
    /\ last.calls[c].pc = "idle"
    /\ LET call == [NotStarted EXCEPT !.intake_id = intake_id,
                                      !.corrected_category = corrected_category,
                                      !.corrected_priority = corrected_priority]
       IN  last' = [last EXCEPT !.calls[c] =
                IF raises THEN Failed(call)
                ELSE [call EXCEPT !.pc = "insert",
                                  !.original = get_original_triage(triage, intake_id)]]
    /\ served' = served + 1
    /\ UNCHANGED <<index, triage, corrections>>
    /\ UNCHANGED rulesVars
    /\ UNCHANGED lambdaVars

\* server.py:315-323: the INSERT, committed on return
CorrectInsert(c, raises, now) ==
    /\ last.calls[c].pc = "insert"
    /\ LET call == last.calls[c]
       IN  /\ corrections' =
                IF raises THEN corrections
                ELSE record_correction(corrections, call.intake_id,
                                       call.corrected_category,
                                       call.corrected_priority,
                                       call.original[1], call.original[2], now)
           /\ last' = [last EXCEPT !.calls[c] =
                IF raises THEN Failed(call) ELSE [call EXCEPT !.pc = "update"]]
    /\ UNCHANGED <<index, triage, served>>
    /\ UNCHANGED rulesVars
    /\ UNCHANGED lambdaVars

\* server.py:325-330: the UPDATE, committed on return
CorrectUpdate(c, raises) ==
    /\ last.calls[c].pc = "update"
    /\ LET call == last.calls[c]
       IN  /\ triage' =
                IF raises THEN triage
                ELSE update_triage_with_correction(triage, call.intake_id,
                                                   call.corrected_category,
                                                   call.corrected_priority)
           /\ last' = [last EXCEPT !.calls[c] =
                IF raises THEN Failed(call) ELSE [call EXCEPT !.pc = "index"]]
    /\ UNCHANGED <<index, corrections, served>>
    /\ UNCHANGED rulesVars
    /\ UNCHANGED lambdaVars

\* server.py:332-353: the import of upsert_item_by_id, the index update and
\* the response
CorrectIndex(c) ==
    /\ last.calls[c].pc = "index"
    /\ LET call == last.calls[c]
           imported == "upsert_item_by_id" \in VectorsNames
       IN  /\ index' = IF imported
                       THEN upsert_item_by_id(index, call.intake_id,
                                              call.corrected_category,
                                              call.corrected_priority)
                       ELSE index
           /\ last' = [last EXCEPT !.calls[c] =
                IF imported THEN [call EXCEPT !.pc = "done", !.status = "recorded"]
                ELSE Failed(call)]
    /\ UNCHANGED <<triage, corrections, served>>
    /\ UNCHANGED rulesVars
    /\ UNCHANGED lambdaVars

CorrectReadStep ==
    \E c \in Callers :
        /\ last.calls[c].pc = "idle"
        /\ \E i \in Ids, v \in CorrectionValues, raises \in BOOLEAN :
              CorrectRead(c, i, v[1], v[2], raises)

CorrectInsertStep ==
    \E c \in Callers :
        /\ last.calls[c].pc = "insert"
        /\ \E raises \in BOOLEAN, tick \in Ticks :
              CorrectInsert(c, raises, LastStamp(corrections) + tick)

CorrectUpdateStep ==
    \E c \in Callers :
        /\ last.calls[c].pc = "update"
        /\ \E raises \in BOOLEAN : CorrectUpdate(c, raises)

CorrectIndexStep == \E c \in Callers : CorrectIndex(c)

NextCorrect ==
    CorrectReadStep \/ CorrectInsertStep \/ CorrectUpdateStep \/ CorrectIndexStep

SpecCorrect == InitCorrect /\ [][NextCorrect]_vars

\* no /correct call stands between its first and its last step
NoCallInProgress == \A c \in Callers : last.calls[c].pc \in {"idle", "done"}

RecordsOf(i) == SelectSeq(corrections, LAMBDA r : r.intake_id = i)

\* C39: whenever no /correct call is in progress, an item with a triage
\* record and at least one CorrectionRecord has the corrected category and
\* priority of its newest CorrectionRecord as its current triage values,
\* also when calls for the same item interleave
C39_TriageFollowsLastCorrection ==
    NoCallInProgress =>
        \A i \in Ids :
            (triage[i].present /\ Len(RecordsOf(i)) > 0) =>
                LET newest == RecordsOf(i)[Len(RecordsOf(i))]
                IN  /\ triage[i].category = newest.corrected_category
                    /\ triage[i].priority = newest.corrected_priority

(***************************************************************************)
(* scripts/spot_restart.py: the Lambda handler that restarts the spot      *)
(* instance. Times are seconds; the jitter is in tenths of a second. A     *)
(* client call either returns or raises ClientError with an error code.    *)
(***************************************************************************)
MaxAttempts == 6

Configs ==
    [instance_id : {"", "i-1"}, max_attempts : 0..MaxAttempts,
     sns_topic_arn : {"", "arn:aws:sns:topic"}]

\* detail of the event; None is a missing key
Events == [instance_id : {"i-1", "i-2", None}, state : {"stopped", "running", None}]

\* what describe_instances can answer before the loop: a ClientError, no
\* reservation, a reservation without instances, or an instance with or
\* without the InstanceLifecycle key
DescribeOutcomes ==
    {"ClientError", "no-reservations", "no-instances", "no-lifecycle", "scheduled", "spot"}

\* what start_instances can do: return, or raise ClientError with a code (or
\* with none: 'Unknown')
StartOutcomes == {"ok", "InsufficientInstanceCapacity", "IncorrectInstanceState", "Unknown"}

\* what the describe_instances of the verify step can show: a state name, no
\* instance data ('unknown'), or a ClientError
VerifyOutcomes == {"pending", "running", "stopped", "unknown", "RequestLimitExceeded"}

\* random.uniform(0, 5), in tenths of a second
Jitters == {0, 17, 50}

SuccessSubject == "DevBox Restarted Successfully"
FailedSubject == "DevBox Restart Failed"
ExhaustedSubject == "DevBox Restart Failed - No Spot Capacity"

\* one client call or sleep of the handler
Call(name, n, saw, base, subject) ==
    [call |-> name, attempt |-> n, saw |-> saw, base |-> base, subject |-> subject]

Returned(status, reason, n) == [status |-> status, reason |-> reason, attempts |-> n]

\* the mutant of send_notification: the topic is not looked at
send_notification_always(log, topic_arn, subject) ==
    Append(log, Call("publish", 0, "ok", 0, subject))

\* _send_notification(sns_client, topic_arn, subject, message)
send_notification(log, topic_arn, subject) ==
    IF topic_arn = "" THEN log
    ELSE Append(log, Call("publish", 0, "ok", 0, subject))

\* the mutant of IsSpot: every instance found is restarted
IsSpotAny(seen) == TRUE

\* instance.get('InstanceLifecycle', 'on-demand') == 'spot'
IsSpot(seen) == seen = "spot"

\* the mutant of InRange: one attempt more
InRangeAndOne(n, max_attempts) == n <= max_attempts + 1

\* attempt in range(1, max_attempts + 1)
InRange(n, max_attempts) == n <= max_attempts

\* the mutant of Retryable: every error code is retried
RetryableAny(code) == TRUE

\* error_code == 'InsufficientInstanceCapacity'
Retryable(code) == code = "InsufficientInstanceCapacity"

\* the mutant of IsUp: only 'running' counts
IsUpRunning(new_state) == new_state = "running"

\* new_state in ['pending', 'running']
IsUp(new_state) == new_state \in {"pending", "running"}

\* the mutant of base_wait: no cap
base_wait_uncapped(n) == 10 * (2 ^ n)

\* min(10 * (2 ** attempt), 120)
base_wait(n) == Min(10 * (2 ^ n), 120)

\* f'{state}': a missing state reads None
StateName(state) == IF state = None THEN "None" ELSE state

InitLambda ==
    /\ config \in Configs
    /\ event \in Events
    /\ pc = "config" /\ attempt = 0 /\ calls = <<>>
    /\ wait = NoWait /\ result = NoResult
    /\ index = <<>> /\ triage = <<>> /\ corrections = <<>> /\ last = <<>>
    /\ served = 0
    /\ rItem = ItemA /\ rCues = <<>> /\ vipPatterns = VIP_PATTERNS
    /\ rOut = NotApplied

\* the loop goes on with the next attempt, or is over
NextAttempt(n) == IF InRange(n, config.max_attempts) THEN "start" ELSE "exhausted"

\* lines 44-68: configuration and event filter
Filter ==
    /\ pc = "config"
    /\ IF config.instance_id = ""
       THEN pc' = "done"
            /\ result' = Returned("error", "INSTANCE_ID environment variable is required", 0)
       ELSE IF event.instance_id # config.instance_id
       THEN pc' = "done" /\ result' = Returned("ignored", "different instance", 0)
       ELSE IF event.state # "stopped"
       THEN pc' = "done"
            /\ result' = Returned("ignored", "state is " \o StateName(event.state), 0)
       ELSE pc' = "describe" /\ result' = result
    /\ UNCHANGED <<config, event, attempt, calls, wait>>
    /\ UNCHANGED serviceVars
    /\ UNCHANGED rulesVars

\* lines 70-102: the spot check, up to the head of the loop
Describe(seen) ==
    /\ pc = "describe"
    /\ calls' = Append(calls, Call("describe", 0, seen, 0, None))
    /\ IF seen = "ClientError"
       THEN pc' = "done" /\ result' = Returned("error", "ClientError", 0)
       ELSE IF seen = "no-reservations"
       THEN pc' = "done" /\ result' = Returned("error", "instance not found", 0)
       ELSE IF seen = "no-instances"
       THEN pc' = "done" /\ result' = Returned("error", "instance data missing", 0)
       ELSE IF ~IsSpot(seen)
       THEN pc' = "done" /\ result' = Returned("ignored", "not a spot instance", 0)
       ELSE pc' = NextAttempt(1) /\ result' = result
    /\ attempt' = IF pc' = "done" THEN attempt ELSE 1
    /\ UNCHANGED <<config, event, wait>>
    /\ UNCHANGED serviceVars
    /\ UNCHANGED rulesVars

\* lines 105-107 and 131-153: start_instances of one attempt and the handling
\* of its ClientError
Start(outcome, jitter) ==
    /\ pc = "start"
    /\ LET log == Append(calls, Call("start", attempt, outcome, 0, None))
       IN  IF outcome = "ok"
           THEN /\ calls' = log
                /\ pc' = "verify"
                /\ UNCHANGED <<attempt, wait, result>>
           ELSE IF Retryable(outcome)
           THEN /\ IF attempt < config.max_attempts
                   THEN /\ wait' = [base |-> base_wait(attempt), jitter |-> jitter]
                        /\ calls' = Append(log, Call("sleep", attempt, "backoff",
                                                     base_wait(attempt), None))
                   ELSE /\ wait' = wait
                        /\ calls' = log
                /\ attempt' = attempt + 1
                /\ pc' = NextAttempt(attempt + 1)
                /\ result' = result
           ELSE /\ calls' = send_notification(log, config.sns_topic_arn, FailedSubject)
                /\ pc' = "done"
                /\ result' = Returned("error", outcome, 0)
                /\ UNCHANGED <<attempt, wait>>
    /\ UNCHANGED <<config, event>>
    /\ UNCHANGED serviceVars
    /\ UNCHANGED rulesVars

\* lines 109-129 (and 131-153 for a ClientError of describe_instances): the
\* verification of a started instance
Verify(seen) ==
    /\ pc = "verify"
    /\ LET log == Append(Append(calls, Call("sleep", attempt, "verify", 5, None)),
                         Call("describe", attempt, seen, 0, None))
       IN  IF seen = "RequestLimitExceeded"
           THEN /\ calls' = send_notification(log, config.sns_topic_arn, FailedSubject)
                /\ pc' = "done"
                /\ result' = Returned("error", seen, 0)
                /\ attempt' = attempt
           ELSE IF IsUp(seen)
           THEN /\ calls' = send_notification(log, config.sns_topic_arn, SuccessSubject)
                /\ pc' = "done"
                /\ result' = Returned("success", None, attempt)
                /\ attempt' = attempt
           ELSE /\ calls' = log
                /\ attempt' = attempt + 1
                /\ pc' = NextAttempt(attempt + 1)
                /\ result' = result
    /\ UNCHANGED <<config, event, wait>>
    /\ UNCHANGED serviceVars
    /\ UNCHANGED rulesVars

\* lines 155-162: all attempts exhausted
Exhausted ==
    /\ pc = "exhausted"
    /\ calls' = send_notification(calls, config.sns_topic_arn, ExhaustedSubject)
    /\ pc' = "done"
    /\ result' = Returned("failed", "max attempts exhausted", 0)
    /\ UNCHANGED <<config, event, attempt, wait>>
    /\ UNCHANGED serviceVars
    /\ UNCHANGED rulesVars

DescribeStep == \E seen \in DescribeOutcomes : Describe(seen)
StartStep == pc = "start" /\ \E outcome \in StartOutcomes, jitter \in Jitters : Start(outcome, jitter)
VerifyStep == \E seen \in VerifyOutcomes : Verify(seen)

NextLambda == Filter \/ DescribeStep \/ StartStep \/ VerifyStep \/ Exhausted

SpecLambda == InitLambda /\ [][NextLambda]_vars

\* the handler runs on: each client call and each sleep returns
SpecLambdaFair == SpecLambda /\ WF_vars(NextLambda)

(***************************************************************************)
(* Claims on the spot restart handler                                      *)
(***************************************************************************)
CallIndexes == 1..Len(calls)
StartIndexes == {i \in CallIndexes : calls[i].call = "start"}
PublishIndexes == {i \in CallIndexes : calls[i].call = "publish"}
BackoffIndexes == {i \in CallIndexes : calls[i].call = "sleep" /\ calls[i].saw = "backoff"}
Finished == pc = "done"

\* the handler got past the spot check, to the restart loop
ReachedLoop == calls # <<>> /\ calls[1].call = "describe" /\ calls[1].saw = "spot"

Eligible ==
    /\ config.instance_id # ""
    /\ event.instance_id = config.instance_id
    /\ event.state = "stopped"
    /\ ReachedLoop

\* every start_instances call so far failed for lack of capacity
OnlyCapacityFailures ==
    ReachedLoop /\ \A i \in StartIndexes : calls[i].saw = "InsufficientInstanceCapacity"

\* C24: start_instances is called only for the configured instance, on a
\* 'stopped' event, after describe_instances showed a spot instance; every
\* other run ends 'ignored' or 'error' with no start_instances call, and an
\* event for another instance ends before any describe_instances call.
C24_StartOnlyWhenEligible ==
    /\ StartIndexes # {} => Eligible
    /\ (Finished /\ ~Eligible) =>
          /\ result.status \in {"ignored", "error"}
          /\ StartIndexes = {}
    /\ (config.instance_id # "" /\ event.instance_id # config.instance_id) =>
          calls = <<>>

\* an instance without the InstanceLifecycle key was left alone
C24_Witness ==
    /\ Finished
    /\ calls = <<Call("describe", 0, "no-lifecycle", 0, None)>>
    /\ result = Returned("ignored", "not a spot instance", 0)

\* C25: the handler terminates; it calls start_instances at most max_attempts
\* times; when every attempt fails with InsufficientInstanceCapacity it makes
\* exactly max_attempts calls and returns 'failed', 'max attempts exhausted'.
C25_BoundedRetries ==
    /\ <>Finished
    /\ [](Cardinality(StartIndexes) <= config.max_attempts)
    /\ []((Finished /\ OnlyCapacityFailures) =>
            /\ Cardinality(StartIndexes) = config.max_attempts
            /\ result = Returned("failed", "max attempts exhausted", 0))

\* a run of three or more attempts that all failed for lack of capacity
C25_Witness ==
    /\ Finished /\ OnlyCapacityFailures
    /\ config.max_attempts >= 3
    /\ Cardinality(StartIndexes) = config.max_attempts
    /\ result.status = "failed"

\* C26: a start_instances failure with a code other than
\* InsufficientInstanceCapacity ends the handler at that attempt with status
\* 'error', and no start_instances call follows it.
C26_OtherErrorEndsRun ==
    \A i \in StartIndexes :
        calls[i].saw \notin {"ok", "InsufficientInstanceCapacity"} =>
            /\ Finished
            /\ result.status = "error"
            /\ \A j \in StartIndexes : j <= i

\* the second attempt of a run with attempts to spare failed with another code
C26_Witness ==
    /\ Finished /\ result.status = "error"
    /\ \E i \in StartIndexes :
          /\ calls[i].saw = "IncorrectInstanceState"
          /\ calls[i].attempt = 2
          /\ calls[i].attempt < config.max_attempts

\* C27: with a topic configured, a run that reaches the restart loop
\* publishes exactly once, at its end, with 'Successfully' in the subject on
\* success and 'Failed' on an error or on exhaustion; with no topic it never
\* publishes.
C27_OneNotification ==
    /\ config.sns_topic_arn = "" => PublishIndexes = {}
    /\ (config.sns_topic_arn # "" /\ ReachedLoop) =>
          IF Finished
          THEN /\ PublishIndexes = {Len(calls)}
               /\ result.status \in {"success", "error", "failed"}
               /\ result.status = "success" =>
                     Contains(calls[Len(calls)].subject, "Successfully")
               /\ result.status \in {"error", "failed"} =>
                     Contains(calls[Len(calls)].subject, "Failed")
          ELSE PublishIndexes = {}

\* a restart that took two attempts was announced once
C27_Witness ==
    /\ Finished /\ config.sns_topic_arn # ""
    /\ result = Returned("success", None, 2)
    /\ PublishIndexes = {Len(calls)}

\* attempt k started the instance and then saw it pending or running
UpAt(k) ==
    \E i \in CallIndexes :
        /\ i + 2 <= Len(calls)
        /\ calls[i].call = "start" /\ calls[i].attempt = k /\ calls[i].saw = "ok"
        /\ calls[i + 2].call = "describe" /\ calls[i + 2].attempt = k
        /\ calls[i + 2].saw \in {"pending", "running"}

\* C28: the handler returns 'success' with attempts = k exactly when k is
\* the first attempt whose start_instances call succeeded and whose
\* describe_instances then showed 'pending' or 'running'; no start_instances
\* call follows that attempt.
C28_SuccessAtFirstUp ==
    \A k \in 1..MaxAttempts :
        /\ Finished =>
              ((result.status = "success" /\ result.attempts = k)
                  <=> (UpAt(k) /\ \A j \in 1..(k - 1) : ~UpAt(j)))
        /\ UpAt(k) => \A i \in StartIndexes : calls[i].attempt <= k

\* the instance was started twice and seen pending the second time
C28_Witness ==
    /\ Finished /\ result = Returned("success", None, 2)
    /\ UpAt(2)
    /\ \E i \in StartIndexes : calls[i].attempt = 1 /\ calls[i].saw = "ok"
    /\ \E i \in CallIndexes : calls[i].call = "describe" /\ calls[i].saw = "pending"

\* 20, 40, 80, 120, 120, ...
BackoffBase(a) == IF a = 1 THEN 20 ELSE IF a = 2 THEN 40 ELSE IF a = 3 THEN 80 ELSE 120

\* C29: a capacity failure on attempt a < max_attempts is followed by a wait
\* of min(10 * 2^a, 120) seconds plus a jitter of 0 to 5 seconds; the last
\* attempt is followed by no wait; a run of max_attempts capacity failures
\* waits max_attempts - 1 times, with bases 20, 40, 80, 120, 120, ...
C29_Backoff ==
    /\ \A i \in StartIndexes :
          calls[i].saw = "InsufficientInstanceCapacity" =>
              IF calls[i].attempt < config.max_attempts
              THEN /\ i < Len(calls)
                   /\ calls[i + 1] = Call("sleep", calls[i].attempt, "backoff",
                                          BackoffBase(calls[i].attempt), None)
              ELSE i < Len(calls) => calls[i + 1].call # "sleep"
    /\ \A i \in BackoffIndexes :
          /\ i > 1
          /\ calls[i - 1].call = "start"
          /\ calls[i - 1].saw = "InsufficientInstanceCapacity"
          /\ calls[i - 1].attempt = calls[i].attempt
    /\ BackoffIndexes # {} =>
          /\ wait.jitter \in 0..50
          /\ \E i \in BackoffIndexes :
                /\ wait.base = calls[i].base
                /\ \A j \in BackoffIndexes : j <= i
    /\ BackoffIndexes = {} => wait = NoWait
    /\ (Finished /\ OnlyCapacityFailures /\ config.max_attempts >= 1) =>
          /\ Cardinality(BackoffIndexes) = config.max_attempts - 1
          /\ \A a \in 1..(config.max_attempts - 1) :
                \E i \in BackoffIndexes :
                    calls[i].attempt = a /\ calls[i].base = BackoffBase(a)

\* six capacity failures: five waits, the last two at the cap, none at the end
C29_Witness ==
    /\ Finished /\ OnlyCapacityFailures
    /\ config.max_attempts = 6
    /\ Cardinality(BackoffIndexes) = 5
    /\ \E i \in BackoffIndexes : calls[i].attempt = 5 /\ calls[i].base = 120
    /\ wait.base = 120 /\ wait.jitter = 17

====
